---------------------------- MODULE Spec2Model ----------------------------
(***************************************************************************)
(* Model of the clarity-js telemetry agent.                                *)
(*                                                                         *)
(*   Part I   the Batcher: the compression worker's message handler        *)
(*            (src/src/plugins/pointer.ts, workerContext).                 *)
(*   Part II  the Layout tracker (src/unnamed/part_001, class Layout) with *)
(*            the live document, the mutation observer and the shadow      *)
(*            mirror it drives.  ShadowDom, the state provider and the     *)
(*            core's event functions are imported by that file; they are   *)
(*            modelled from the specification.                             *)
(***************************************************************************)
EXTENDS Integers, Sequences, FiniteSets, TLC

(***************************************************************************)
(* Bounds of the model.                                                    *)
(***************************************************************************)
\* config.batchLimit: the configured batch limit (a configuration value).
BatchLimit == 3
\* Number of AddEvent messages the foreground sends in one explored session.
MaxEvents == 3
\* Number of DOM operations the page performs in one explored session.
MaxOps == 2
\* Number of scroll and input events the user causes.
MaxInteractions == 3
\* Number of times the host starts the plugin (reset, then activate).
MaxSessions == 1
\* The wall clock advances by one per foreground task and stops here.
MaxClock == 2

VARIABLES
    \* ---- Batcher (workerContext) ----
    nextBatchEvents,                  \* IEvent[]   pending events
    nextBatchBytes,                   \* number     sum of their serialized lengths
    sequence,                         \* number     next envelope sequence number
    nextBatchIsSingleXhrErrorEvent,   \* boolean    the suppression flag
    posted,        \* CompressedBatch messages posted to the core, in emission order
    received,      \* history: events received through AddEvent, in arrival order
    flushCalls,    \* history: the postNextBatchToCore calls of the last handled message
    withheld,      \* history: ids of events pending at a suppressed flush
    \* ---- the page: live document and mutation observer ----
    children,      \* live DOM: node -> sequence of its child nodes
    attrs,         \* live DOM: node -> value of its attribute / character data
    nodeIndex,     \* node[NodeIndex], the index annotation (Null when absent)
    pendingRecords,\* mutation records queued by the observer, not yet delivered
    opsDone,       \* number of DOM operations performed so far
    clock,         \* getTimestamp(): the wall clock
    opLimit,       \* number of DOM operations the page performs in the session
    scrollPos,     \* live DOM: scrollLeft / scrollTop of the scrollable element
    inputValue,    \* live DOM: value of the input element
    interactions,  \* number of scroll and input events the user has caused
    activations,   \* number of times the host has started the plugin
    \* ---- Layout plugin ----
    phase,         \* "reset" after reset(), "active" after activate(),
                   \* "torndown" after teardown()
    validateConsistency,              \* config.validateConsistency
    shadowDom,                        \* this.shadowDom
    inconsistentShadowDomCount,
    watchList,
    mutationSequence,
    domPreDiscoverMutations,
    domDiscoverComplete,
    lastConsistentDomJson,
    firstShadowDomInconsistentEvent,
    layoutStates,
    originalLayouts,
    backfillTimer, \* the pending setTimeout(backfillLayoutsAsync) calls, oldest
                   \* first, each with its time argument
    discovered,    \* history: the placeholders recorded by discoverDom, with its time
    uncaught,      \* history: the plugin's last task ended in an uncaught
                   \* ReferenceError (thrown by createEventState)
    \* ---- core (foreground pipeline) ----
    layoutEvents,  \* events passed to addEvent / addMultipleEvents, in order
    instrumented,  \* records passed to instrument, in order
    bindings,      \* listeners registered through bind, in order
    \* ---- the other plugins ----
    errorEvents,   \* history: the error events passed to logError, in order
    resourceTimings,          \* performance.getEntriesByType("resource")
    lastInspectedEntryIndex,  \* profiler: index of the last entry looked at
    incompleteEntryIndices,   \* profiler: indices of the entries to look at again
    polls,         \* history: number of polls the profiler has run
    lastMoveState, \* Pointer: the last move state emitted (NoPointerState: null)
    lastMoveTime,  \* Pointer: the time stamp of that state's event
    pointerEvents, \* the events the Pointer plugin passed to addEvent, in order
    pointerStates, \* history: the pointer states processed, with their time stamps
    pointerResetAt \* history: the number of events emitted before the last reset()

batcherVars == << nextBatchEvents, nextBatchBytes, sequence,
                  nextBatchIsSingleXhrErrorEvent, posted, received,
                  flushCalls, withheld >>

pageVars == << children, attrs, nodeIndex, pendingRecords, opsDone, clock >>

userVars == << opLimit, scrollPos, inputValue, interactions, activations >>

layoutVars == << phase, validateConsistency, shadowDom, inconsistentShadowDomCount,
                 watchList, mutationSequence, domPreDiscoverMutations,
                 domDiscoverComplete, lastConsistentDomJson,
                 firstShadowDomInconsistentEvent, layoutStates, originalLayouts,
                 backfillTimer, discovered, uncaught >>

coreVars == << layoutEvents, instrumented, bindings >>

errorVars == << errorEvents >>

performanceVars == << resourceTimings, lastInspectedEntryIndex,
                      incompleteEntryIndices, polls >>

pointerVars == << lastMoveState, lastMoveTime, pointerEvents, pointerStates,
                  pointerResetAt >>

pluginVars == << errorVars, performanceVars, pointerVars >>

vars == << batcherVars, pageVars, userVars, layoutVars, coreVars, pluginVars >>

(***************************************************************************)
(* Part I.  The Batcher.                                                   *)
(***************************************************************************)

XhrError == "XhrError"

\* event.state.type of the events the foreground sends: the XhrError
\* instrumentation event and an ordinary (layout) event.
StateTypes == { XhrError, "Layout" }

\* Serialized lengths of events; BatchLimit + 1 is an event that exceeds the
\* limit by itself.
EventLengths == 1 .. (BatchLimit + 1)

\* JSON.stringify(event).length: the serialized form of an event is
\* represented by its length alone, an attribute of the event.
eventStrLength(event) == event.len

RECURSIVE SumLengths(_)
SumLengths(events) ==
    IF events = << >> THEN 0
    ELSE eventStrLength(Head(events)) + SumLengths(Tail(events))

RECURSIVE ConcatEvents(_)
ConcatEvents(batches) ==
    IF batches = << >> THEN << >>
    ELSE Head(batches).events \o ConcatEvents(Tail(batches))

\* The worker's mutable state as one record, threaded through the calls of
\* one message handler.
WorkerState ==
    [ nextBatchEvents |-> nextBatchEvents,
      nextBatchBytes  |-> nextBatchBytes,
      sequence        |-> sequence,
      single          |-> nextBatchIsSingleXhrErrorEvent,
      posted          |-> posted,
      calls           |-> << >>,
      withheld        |-> withheld ]

\* What the pending batch really is (computed from its contents, not from
\* the flag).
IsSingleXhrError(events) ==
    Len(events) = 1 /\ events[1].stateType = XhrError

\* payload.metadata is set iff envelope.sequenceNumber === 0.
payloadMetadata_Always(envelope) == TRUE

payloadMetadata(envelope) == envelope.sequenceNumber = 0

\* postToCore: the CompressedBatch message posted to the main thread.  rawData
\* is the stringified payload {envelope, events, metadata?}; compressedData is
\* a function of it and carries nothing more.
postToCore(w, envelope, events, eventCount) ==
    Append(w.posted,
           [ sequenceNumber |-> envelope.sequenceNumber,
             events         |-> events,
             hasMetadata    |-> payloadMetadata(envelope),
             eventCount     |-> eventCount ])

\* One record per call of postNextBatchToCore: the pending batch it found and
\* what it left behind.
FlushCall(w, after) ==
    [ bytes       |-> w.nextBatchBytes,
      events      |-> w.nextBatchEvents,
      single      |-> IsSingleXhrError(w.nextBatchEvents),
      emitted     |-> Len(after.posted) > Len(w.posted),
      bytesAfter  |-> after.nextBatchBytes,
      eventsAfter |-> after.nextBatchEvents ]

Logged(w, after) ==
    [ after EXCEPT
        !.calls = Append(w.calls, FlushCall(w, after)),
        !.withheld = IF w.nextBatchBytes > 0 /\ Len(after.posted) = Len(w.posted)
                     THEN @ \cup { w.nextBatchEvents[i].id :
                                     i \in 1 .. Len(w.nextBatchEvents) }
                     ELSE @ ]

\* Variants of postNextBatchToCore with a plausible slip each.
postNextBatchToCore_NoIncrement(w) ==
    IF w.nextBatchBytes > 0 /\ ~ w.single
    THEN Logged(w, [ w EXCEPT
            !.nextBatchEvents = << >>,
            !.nextBatchBytes = 0,
            !.posted = postToCore(w, [ sequenceNumber |-> w.sequence ],
                                  w.nextBatchEvents, Len(w.nextBatchEvents)) ])
    ELSE Logged(w, w)

postNextBatchToCore_DropSuppressed(w) ==
    IF w.nextBatchBytes > 0 /\ ~ w.single
    THEN Logged(w, [ w EXCEPT
            !.sequence = @ + 1,
            !.nextBatchEvents = << >>,
            !.nextBatchBytes = 0,
            !.posted = postToCore(w, [ sequenceNumber |-> w.sequence ],
                                  w.nextBatchEvents, Len(w.nextBatchEvents)) ])
    ELSE Logged(w, [ w EXCEPT !.nextBatchEvents = << >>, !.nextBatchBytes = 0 ])

postNextBatchToCore_IgnoreFlag(w) ==
    IF w.nextBatchBytes > 0
    THEN Logged(w, [ w EXCEPT
            !.sequence = @ + 1,
            !.nextBatchEvents = << >>,
            !.nextBatchBytes = 0,
            !.posted = postToCore(w, [ sequenceNumber |-> w.sequence ],
                                  w.nextBatchEvents, Len(w.nextBatchEvents)) ])
    ELSE Logged(w, w)

\* postNextBatchToCore(time): emits the pending batch when it is non-empty and
\* not a lone XhrError event; otherwise it changes nothing.  The envelope takes
\* sequence and then increments it (sequence++).
postNextBatchToCore(w) ==
    IF w.nextBatchBytes > 0 /\ ~ w.single
    THEN Logged(w, [ w EXCEPT
            !.sequence = @ + 1,
            !.nextBatchEvents = << >>,
            !.nextBatchBytes = 0,
            !.posted = postToCore(w, [ sequenceNumber |-> w.sequence ],
                                  w.nextBatchEvents, Len(w.nextBatchEvents)) ])
    ELSE Logged(w, w)

\* A variant of addEvent that sets the flag for any XhrError event, whatever
\* the number of pending events.
addEvent_FlagAnyXhr(w, event) ==
    LET eventStr == eventStrLength(event)
        w1 == IF w.nextBatchBytes > 0
                 /\ w.nextBatchBytes + eventStr > BatchLimit
              THEN postNextBatchToCore(w)
              ELSE w
        w2 == [ w1 EXCEPT
                  !.nextBatchEvents = Append(@, event),
                  !.nextBatchBytes = @ + eventStr,
                  !.single = (event.stateType = XhrError) ]
    IN  IF w2.nextBatchBytes >= BatchLimit
        THEN postNextBatchToCore(w2)
        ELSE w2

\* A variant of addEvent whose second check lets a batch of exactly
\* batchLimit bytes wait.
addEvent_StrictSecondCheck(w, event) ==
    LET eventStr == eventStrLength(event)
        w1 == IF w.nextBatchBytes > 0
                 /\ w.nextBatchBytes + eventStr > BatchLimit
              THEN postNextBatchToCore(w)
              ELSE w
        w2 == [ w1 EXCEPT
                  !.nextBatchEvents = Append(@, event),
                  !.nextBatchBytes = @ + eventStr,
                  !.single = (Len(w1.nextBatchEvents) + 1 = 1
                              /\ event.stateType = XhrError) ]
    IN  IF w2.nextBatchBytes > BatchLimit
        THEN postNextBatchToCore(w2)
        ELSE w2

\* addEvent(event, time) of the worker.
addEvent(w, event) ==
    LET eventStr == eventStrLength(event)
        w1 == IF w.nextBatchBytes > 0
                 /\ w.nextBatchBytes + eventStr > BatchLimit
              THEN postNextBatchToCore(w)
              ELSE w
        w2 == [ w1 EXCEPT
                  !.nextBatchEvents = Append(@, event),
                  !.nextBatchBytes = @ + eventStr,
                  !.single = (Len(w1.nextBatchEvents) + 1 = 1
                              /\ event.stateType = XhrError) ]
    IN  IF w2.nextBatchBytes >= BatchLimit
        THEN postNextBatchToCore(w2)
        ELSE w2

Commit(w) ==
    /\ nextBatchEvents' = w.nextBatchEvents
    /\ nextBatchBytes' = w.nextBatchBytes
    /\ sequence' = w.sequence
    /\ nextBatchIsSingleXhrErrorEvent' = w.single
    /\ posted' = w.posted
    /\ flushCalls' = w.calls
    /\ withheld' = w.withheld

\* self.onmessage, case WorkerMessageType.AddEvent.  The foreground numbers
\* its events 1, 2, ... in the order addEvent is called.
OnAddEventMessage ==
    /\ Len(received) < MaxEvents
    /\ \E t \in StateTypes, l \in EventLengths :
         LET event == [ id |-> Len(received) + 1, stateType |-> t, len |-> l ]
         IN  /\ Commit(addEvent(WorkerState, event))
             /\ received' = Append(received, event)
    /\ UNCHANGED << pageVars, userVars, layoutVars, coreVars,
                    pluginVars >>

\* self.onmessage, case WorkerMessageType.ForceCompression.
OnForceCompressionMessage ==
    /\ Commit(postNextBatchToCore(WorkerState))
    /\ UNCHANGED << received, pageVars, userVars, layoutVars, coreVars,
                    pluginVars >>

\* self.onmessage, default: any other message is ignored.
OnOtherMessage ==
    /\ flushCalls' = << >>
    /\ UNCHANGED << nextBatchEvents, nextBatchBytes, sequence,
                    nextBatchIsSingleXhrErrorEvent, posted, received, withheld,
                    pageVars, userVars, layoutVars, coreVars,
                    pluginVars >>

WorkerInit ==
    /\ nextBatchEvents = << >>
    /\ nextBatchBytes = 0
    /\ sequence = 0
    /\ nextBatchIsSingleXhrErrorEvent = FALSE
    /\ posted = << >>
    /\ received = << >>
    /\ flushCalls = << >>
    /\ withheld = {}

NextBatcher ==
    \/ OnAddEventMessage
    \/ OnForceCompressionMessage
    \/ OnOtherMessage


(***************************************************************************)
(* Part II.  The page, the shadow mirror and the Layout tracker.           *)
(***************************************************************************)

\* null, as returned by getNodeIndex for a node without index annotation.
Null == -1

\* The nodes of the page.  Node 1 is the document, node 2 the root element,
\* node 3 a scrollable DIV and node 4 an INPUT.
Document == 1
Nodes == Document .. 4

NodeTag(n) ==
    CASE n = Document -> "#document"
      [] n = 4        -> "INPUT"
      [] OTHER        -> "DIV"

\* Whether the layout of the element carries scroll geometry.
Scrollable(n) == n = 3

\* The scroll offsets the scrollable element can be at, and the page as loaded.
ScrollPositions == [ x : { 0, 3, 6 }, y : { 0, 6 } ]

ScrollOrigin == [ x |-> 0, y |-> 0 ]

\* Elements that may hold children; the document holds the root element only.
Containers == { 2, 3 }

Range(seq) == { seq[i] : i \in 1 .. Len(seq) }

PositionIn(seq, x) == CHOOSE i \in 1 .. Len(seq) : seq[i] = x

Without(seq, x) == SelectSeq(seq, LAMBDA y : y # x)

\* node.parentNode, node.previousSibling, node.nextSibling in the tree ch.
parentNode(ch, n) ==
    IF \E p \in DOMAIN ch : n \in Range(ch[p])
    THEN CHOOSE p \in DOMAIN ch : n \in Range(ch[p])
    ELSE Null

previousSibling(ch, n) ==
    LET p == parentNode(ch, n)
    IN  IF p = Null \/ PositionIn(ch[p], n) = 1 THEN Null
        ELSE ch[p][PositionIn(ch[p], n) - 1]

nextSibling(ch, n) ==
    LET p == parentNode(ch, n)
    IN  IF p = Null \/ PositionIn(ch[p], n) = Len(ch[p]) THEN Null
        ELSE ch[p][PositionIn(ch[p], n) + 1]

\* traverseNodeTree: the nodes below (and including) the listed roots, each
\* node before its children, children in sibling order.
RECURSIVE traverseNodeTree(_, _)
traverseNodeTree(ch, roots) ==
    IF roots = << >> THEN << >>
    ELSE << Head(roots) >> \o traverseNodeTree(ch, ch[Head(roots)])
                           \o traverseNodeTree(ch, Tail(roots))

Attached(ch) == Range(traverseNodeTree(ch, << Document >>))

Subtree(ch, n) == Range(traverseNodeTree(ch, << n >>))

\* getNodeIndex(node): the index annotation of the node, null for no node.
getNodeIndex(idx, n) == IF n = Null THEN Null ELSE idx[n]

\* ---- the page's own DOM operations (the environment) ----

DomAppendChild(ch, p, n) ==
    LET q  == parentNode(ch, n)
        c1 == IF q = Null THEN ch ELSE [ ch EXCEPT ![q] = Without(@, n) ]
    IN  [ c1 EXCEPT ![p] = Append(@, n) ]

DomRemoveChild(ch, n) ==
    [ ch EXCEPT ![parentNode(ch, n)] = Without(@, n) ]

CanAppend(ch, p, n) ==
    /\ p \in Attached(ch)
    /\ n # Document
    /\ p \notin Subtree(ch, n)
    /\ parentNode(ch, n) # p
    /\ \/ p \in Containers
       \/ p = Document /\ n = 2 /\ ch[Document] = << >>

\* ---- ShadowDom (./layout/shadowdom) ----
\* The mirror is an arena of shadow nodes keyed by id: node[id] is the live
\* node, kids[id] the ids of its children in order.

EmptyShadowDom == [ node |-> << >>, kids |-> << >>, nextIndex |-> 0 ]

ShadowDocumentId == 0

shadowParent(sd, id) ==
    IF \E p \in DOMAIN sd.kids : id \in Range(sd.kids[p])
    THEN CHOOSE p \in DOMAIN sd.kids : id \in Range(sd.kids[p])
    ELSE Null

InsertBefore(seq, x, before) ==
    IF before = Null \/ before \notin Range(seq) THEN Append(seq, x)
    ELSE LET k == PositionIn(seq, before)
         IN  SubSeq(seq, 1, k - 1) \o << x >> \o SubSeq(seq, k, Len(seq))

\* insertShadowNode(node, parentIndex, nextSiblingIndex): gives the node the
\* next index and links its shadow node under the parent, before the sibling.
\* Returns the mirror and the index annotations after the call.
insertShadowNode(sd, idx, n, parentIndex, nextSiblingIndex) ==
    LET id == sd.nextIndex
        kids1 == IF parentIndex = Null THEN sd.kids
                 ELSE [ sd.kids EXCEPT
                          ![parentIndex] = InsertBefore(@, id, nextSiblingIndex) ]
    IN  [ shadow |-> [ node |-> (id :> n) @@ sd.node,
                       kids |-> (id :> << >>) @@ kids1,
                       nextIndex |-> id + 1 ],
          index  |-> [ idx EXCEPT ![n] = id ] ]

\* The mirror fails to place the node: the node gets its index, and its
\* shadow node is put under shadowDocument instead of under its parent.  This
\* is how the mirror comes to diverge from the document in discovery.
insertShadowNodeDiverging(sd, idx, n, parentIndex, nextSiblingIndex) ==
    insertShadowNode(sd, idx, n,
                     IF parentIndex = Null THEN Null ELSE ShadowDocumentId, Null)

\* createIndexJson(root, idFn): the tree of ids below the given roots.
RECURSIVE createIndexJsonDom(_, _, _)
createIndexJsonDom(ch, idx, roots) ==
    IF roots = << >> THEN << >>
    ELSE << << getNodeIndex(idx, Head(roots)),
               createIndexJsonDom(ch, idx, ch[Head(roots)]) >> >>
         \o createIndexJsonDom(ch, idx, Tail(roots))

RECURSIVE createIndexJsonShadow(_, _)
createIndexJsonShadow(sd, ids) ==
    IF ids = << >> THEN << >>
    ELSE << << Head(ids), createIndexJsonShadow(sd, sd.kids[Head(ids)]) >> >>
         \o createIndexJsonShadow(sd, Tail(ids))

DomJson(ch, idx) == createIndexJsonDom(ch, idx, << Document >>)

ShadowJson(sd) ==
    IF ShadowDocumentId \in DOMAIN sd.kids
    THEN createIndexJsonShadow(sd, << ShadowDocumentId >>)
    ELSE << >>

\* isConsistent(): the index tree of the document equals that of the mirror.
isConsistent(sd, ch, idx) == DomJson(ch, idx) = ShadowJson(sd)

RECURSIVE MapSeq(_, _)
MapSeq(f, seq) ==
    IF seq = << >> THEN << >> ELSE << f[Head(seq)] >> \o MapSeq(f, Tail(seq))

\* Whether the node is present in the mirror: it carries an index and the
\* shadow node of that index is its own.
inShadow(sd, idx, n) ==
    /\ n # Null
    /\ idx[n] # Null
    /\ idx[n] \in DOMAIN sd.node
    /\ sd.node[idx[n]] = n

\* The shadow node is taken out of its parent's list of children; its own
\* subtree stays below it.
unlinkShadowNode(sd, id) ==
    [ sd EXCEPT !.kids = [ i \in DOMAIN @ |-> Without(@[i], id) ] ]

\* The shadow node is put under another parent, before the given sibling.
moveShadowNode(sd, id, parentIndex, nextSiblingIndex) ==
    LET sd1 == unlinkShadowNode(sd, id)
    IN  [ sd1 EXCEPT !.kids[parentIndex] = InsertBefore(@, id, nextSiblingIndex) ]

\* A variant of insertNewNodes that gives the node its shadow node and leaves
\* its descendants out.
insertNewNodes_NodeOnly(M, ch, nodes, parentIndex) ==
    IF nodes = << >> THEN M
    ELSE insertShadowNode(M.shadow, M.index, Head(nodes), parentIndex, Null)

\* A node absent from the mirror and now attached: it gets the next index
\* and a shadow node under its parent, and so do, in the order of the
\* document, its descendants that are absent from the mirror.  M holds the
\* mirror and the index annotations.
RECURSIVE insertNewNodes(_, _, _, _)
insertNewNodes(M, ch, nodes, parentIndex) ==
    IF nodes = << >> THEN M
    ELSE LET n == Head(nodes)
         IN  IF inShadow(M.shadow, M.index, n)
             THEN insertNewNodes(M, ch, Tail(nodes), parentIndex)
             ELSE LET r  == insertShadowNode(M.shadow, M.index, n, parentIndex, Null)
                      M1 == insertNewNodes(r, ch, ch[n], r.index[n])
                  IN  insertNewNodes(M1, ch, Tail(nodes), parentIndex)

\* One mutation record resolved against the mirror as it is now.
\*   attributes            the shape of the mirror is left alone
\*   childList, removed    the shadow node of the node is detached
\*   childList, added      under a target absent from the mirror: nothing;
\*                         a node present in the mirror: its shadow node is
\*                         moved to the end of the target's children;
\*                         a node absent and not in the document any more
\*                         (the terminal state wins): nothing;
\*                         a node absent and in the document: it is new,
\*                         and so are its descendants (insertNewNodes)
applyMutationRecord(M, ch, record) ==
    LET n == IF record.removedNode # Null THEN record.removedNode ELSE record.addedNode
        p == record.target
    IN  IF record.type # "childList" THEN M
        ELSE IF record.removedNode # Null
        THEN IF inShadow(M.shadow, M.index, n)
             THEN [ M EXCEPT !.shadow = unlinkShadowNode(@, M.index[n]) ]
             ELSE M
        ELSE IF ~ inShadow(M.shadow, M.index, p) THEN M
        ELSE IF inShadow(M.shadow, M.index, n)
        THEN [ M EXCEPT !.shadow = moveShadowNode(@, M.index[n], M.index[p], Null) ]
        ELSE IF n \notin Attached(ch) THEN M
        ELSE insertNewNodes(M, ch, << n >>, M.index[p])

\* The records of the batch resolved one after the other, in their order.
RECURSIVE applyMutationRecords(_, _, _)
applyMutationRecords(M, ch, list) ==
    IF list = << >> THEN M
    ELSE applyMutationRecords(applyMutationRecord(M, ch, Head(list)), ch, Tail(list))

EmptySummary ==
    [ newNodes |-> << >>, movedNodes |-> << >>,
      updatedNodes |-> << >>, removedNodes |-> << >> ]

RECURSIVE shadowOrder(_, _)
shadowOrder(sd, ids) ==
    IF ids = << >> THEN << >>
    ELSE << Head(ids) >> \o shadowOrder(sd, sd.kids[Head(ids)])
                         \o shadowOrder(sd, Tail(ids))

\* The shadow nodes below shadowDocument, in the order of the mirror.
shadowTree(sd) ==
    IF ShadowDocumentId \in DOMAIN sd.kids
    THEN shadowOrder(sd, << ShadowDocumentId >>)
    ELSE << >>

\* The summary of a batch, read off the mirror as it was before the batch
\* (sd) and as the records have left it (M): the affected nodes sorted into
\* four disjoint lists by what has become of them at the end of the batch:
\*   new      not in the mirror before the batch, below shadowDocument now
\*   moved    in the mirror before, below shadowDocument now, under another
\*            parent
\*   updated  in the mirror before, below shadowDocument now under the same
\*            parent, target of an attributes record
\*   removed  in the mirror before, detached now (the topmost shadow node of
\*            each detached subtree, which carries that subtree)
\* The detached subtrees leave the mirror.
summarizeBatch(sd, M, records) ==
    LET R       == M.shadow
        before  == shadowTree(sd)
        after   == shadowTree(R)
        known(i)   == i \in DOMAIN sd.node
        isMoved(i) == known(i) /\ i # ShadowDocumentId
                        /\ shadowParent(R, i) # shadowParent(sd, i)
        newIds     == SelectSeq(after, LAMBDA i : ~ known(i))
        movedIds   == SelectSeq(after, isMoved)
        updatedIds == SelectSeq(after, LAMBDA i : /\ known(i)
                                                  /\ R.node[i] \in records.touched
                                                  /\ ~ isMoved(i))
        goneIds    == SelectSeq(before, LAMBDA i : /\ i \notin Range(after)
                                                   /\ shadowParent(R, i) = Null)
    IN  [ shadow  |-> [ node |-> [ i \in Range(after) |-> R.node[i] ],
                        kids |-> [ i \in Range(after) |-> R.kids[i] ],
                        nextIndex |-> R.nextIndex ],
          index   |-> M.index,
          summary |-> [ newNodes     |-> MapSeq(R.node, newIds),
                        movedNodes   |-> MapSeq(R.node, movedIds),
                        updatedNodes |-> MapSeq(R.node, updatedIds),
                        removedNodes |-> [ k \in 1 .. Len(goneIds) |->
                            [ node    |-> R.node[goneIds[k]],
                              subtree |-> MapSeq(R.node,
                                                 shadowOrder(R, << goneIds[k] >>)) ] ] ] ]

\* applyMutationBatch(mutations): resolves the records of the batch, in
\* their order, against the mirror, and returns the mirror, the index
\* annotations and the summary of the batch.
applyMutationBatch(sd, idx, ch, records) ==
    summarizeBatch(sd,
                   applyMutationRecords([ shadow |-> sd, index |-> idx ], ch,
                                        records.list),
                   records)

\* The mirror fails to follow the batch: it is left as it was and reports
\* nothing.  This is how the mirror comes to diverge from the document.
applyMutationBatchDiverging(sd, idx, ch, records) ==
    [ shadow |-> sd, index |-> idx, summary |-> EmptySummary ]

\* The mirror follows the batch in part: it detaches and reports the shadow
\* subtrees of the removed nodes and misses the rest (insertions, moves,
\* updates).  A node the page moved out of a removed subtree is still in that
\* shadow subtree and goes with it.
applyMutationBatchRemovesOnly(sd, idx, ch, records) ==
    LET roots == applyMutationBatch(sd, idx, ch, records).summary.removedNodes
        subtreeIds(k) == shadowOrder(sd, << idx[roots[k].node] >>)
        drop == UNION { Range(subtreeIds(k)) : k \in 1 .. Len(roots) }
        keep == DOMAIN sd.node \ drop
    IN  [ shadow  |-> [ node |-> [ i \in keep |-> sd.node[i] ],
                        kids |-> [ i \in keep |->
                                     SelectSeq(sd.kids[i], LAMBDA j : j \in keep) ],
                        nextIndex |-> sd.nextIndex ],
          index   |-> idx,
          summary |-> [ EmptySummary EXCEPT !.removedNodes =
                          [ k \in 1 .. Len(roots) |->
                              [ node    |-> roots[k].node,
                                subtree |-> MapSeq(sd.node, subtreeIds(k)) ] ] ] ]

\* What the mirror makes of a batch: it follows it, ignores it, or follows
\* its removals only.
MirrorOutcomes == { "follows", "ignores", "removes" }

\* ---- state provider (./layout/stateprovider) ----

\* createLayoutState(node, shadowDom): the layout state of the node as it is
\* now: its index and the indices of its neighbours, its tag, its attribute
\* value and, when its layout carries scroll geometry (scroll), the scroll
\* offsets of the element (layout.scrollX, layout.scrollY).  value is
\* attributes.value, which the input handler writes.
createLayoutState(ch, idx, at, n) ==
    [ index      |-> getNodeIndex(idx, n),
      parent     |-> getNodeIndex(idx, parentNode(ch, n)),
      previous   |-> getNodeIndex(idx, previousSibling(ch, n)),
      next       |-> getNodeIndex(idx, nextSibling(ch, n)),
      source     |-> "null",
      action     |-> "null",
      tag        |-> NodeTag(n),
      attributes |-> at[n],
      value      |-> Null,
      scroll     |-> Scrollable(n),
      scrollX    |-> IF Scrollable(n) THEN scrollPos.x ELSE Null,
      scrollY    |-> IF Scrollable(n) THEN scrollPos.y ELSE Null,
      mutationSequence |-> Null ]

\* createGenericLayoutState(node, tag): the placeholder layout: indices only;
\* its layout and its attributes are null (attributes = Null stands for both).
createGenericLayoutState(ch, idx, n, tag) ==
    [ index      |-> getNodeIndex(idx, n),
      parent     |-> getNodeIndex(idx, parentNode(ch, n)),
      previous   |-> getNodeIndex(idx, previousSibling(ch, n)),
      next       |-> getNodeIndex(idx, nextSibling(ch, n)),
      source     |-> "null",
      action     |-> "null",
      tag        |-> tag,
      attributes |-> Null,
      value      |-> Null,
      scroll     |-> FALSE,
      scrollX    |-> Null,
      scrollY    |-> Null,
      mutationSequence |-> Null ]

\* ---- core (./../core) ----

\* addMultipleEvents(events): forwards the events in list order; an event
\* without time gets the current wall-clock time.
addMultipleEvents(log, events, now) ==
    log \o [ k \in 1 .. Len(events) |->
               [ events[k] EXCEPT !.time = IF @ = Null THEN now ELSE @ ] ]

\* addEvent(event): forwards one event, stamped with the current wall-clock
\* time when it has none.
addEvent_core(log, event, now) == addMultipleEvents(log, << event >>, now)

\* An entry of the event list handed to addMultipleEvents: type, state and
\* (when given) time, as in the source.  node, batch and live are history:
\* the node the state is about, the number of the mutation batch that
\* produced it, and the node's neighbours as createLayoutState saw them.
EventData(state, time, n, batch, current) ==
    [ type  |-> "Layout",
      state |-> state,
      time  |-> time,
      node  |-> n,
      batch |-> batch,
      live  |-> [ parent |-> current.parent, previous |-> current.previous,
                  next |-> current.next ] ]

\* ---- class Layout ----
\* The operations below work on one record L of the plugin's fields (and of
\* what the plugin writes outside itself: the index annotations, the event
\* log, the instrumentation log and the listeners), threaded through the
\* calls of one task.  ch and at are the live tree and attributes, now the
\* wall clock of the task.  thrown tells that an exception is propagating:
\* every caller up to the task's entry point stops where the call threw.

LayoutState ==
    [ validate        |-> validateConsistency,
      shadow          |-> shadowDom,
      index           |-> nodeIndex,
      count           |-> inconsistentShadowDomCount,
      first           |-> firstShadowDomInconsistentEvent,
      lastJson        |-> lastConsistentDomJson,
      watchList       |-> watchList,
      mutationSequence |-> mutationSequence,
      queue           |-> domPreDiscoverMutations,
      complete        |-> domDiscoverComplete,
      layoutStates    |-> layoutStates,
      originalLayouts |-> originalLayouts,
      timer           |-> backfillTimer,
      eventsData      |-> << >>,
      layoutEvents    |-> layoutEvents,
      instrumented    |-> instrumented,
      bindings        |-> bindings,
      thrown          |-> FALSE ]

\* allowMutation()  (First a variant that never refuses.)
allowMutation_Always(L) == TRUE

allowMutation(L) == L.count < 2 \/ ~ L.validate

\* checkConsistency(lastActionInfo)  (First three variants: one that also
\* emits the record of a first divergence, one that does not start over
\* after a consistent check, one that keeps the oldest stored record.)
checkConsistency_EmitsFirst(L, ch, lastActionInfo) ==
    IF ~ L.validate THEN L
    ELSE LET domJson == DomJson(ch, L.index)
         IN  IF ~ isConsistent(L.shadow, ch, L.index)
             THEN LET count1 == L.count + 1
                      evt == [ type |-> "ShadowDomInconsistent",
                               dom |-> domJson,
                               shadowDom |-> ShadowJson(L.shadow),
                               lastConsistentShadowDom |-> L.lastJson,
                               lastAction |-> lastActionInfo ]
                  IN  [ L EXCEPT
                          !.count = count1,
                          !.first = IF count1 < 2 THEN << evt >> ELSE @,
                          !.instrumented =
                             Append(@, [ evt |-> evt, firstEvent |-> L.first ]) ]
             ELSE [ L EXCEPT !.count = 0, !.first = << >>, !.lastJson = << domJson >> ]

checkConsistency_NoStartOver(L, ch, lastActionInfo) ==
    IF ~ L.validate THEN L
    ELSE LET domJson == DomJson(ch, L.index)
         IN  IF ~ isConsistent(L.shadow, ch, L.index)
             THEN LET count1 == L.count + 1
                      evt == [ type |-> "ShadowDomInconsistent",
                               dom |-> domJson,
                               shadowDom |-> ShadowJson(L.shadow),
                               lastConsistentShadowDom |-> L.lastJson,
                               lastAction |-> lastActionInfo ]
                  IN  IF count1 < 2
                      THEN [ L EXCEPT !.count = count1, !.first = << evt >> ]
                      ELSE [ L EXCEPT
                               !.count = count1,
                               !.instrumented =
                                  Append(@, [ evt |-> evt, firstEvent |-> L.first ]) ]
             ELSE [ L EXCEPT !.lastJson = << domJson >> ]

checkConsistency_KeepOldest(L, ch, lastActionInfo) ==
    IF ~ L.validate THEN L
    ELSE LET domJson == DomJson(ch, L.index)
         IN  IF ~ isConsistent(L.shadow, ch, L.index)
             THEN LET count1 == L.count + 1
                      evt == [ type |-> "ShadowDomInconsistent",
                               dom |-> domJson,
                               shadowDom |-> ShadowJson(L.shadow),
                               lastConsistentShadowDom |-> L.lastJson,
                               lastAction |-> lastActionInfo ]
                  IN  IF count1 < 2
                      THEN [ L EXCEPT !.count = count1,
                                      !.first = IF @ = << >> THEN << evt >> ELSE @ ]
                      ELSE [ L EXCEPT
                               !.count = count1,
                               !.instrumented =
                                  Append(@, [ evt |-> evt, firstEvent |-> L.first ]) ]
             ELSE [ L EXCEPT !.count = 0, !.lastJson = << domJson >> ]

checkConsistency(L, ch, lastActionInfo) ==
    IF ~ L.validate THEN L
    ELSE LET domJson == DomJson(ch, L.index)
         IN  IF ~ isConsistent(L.shadow, ch, L.index)
             THEN LET count1 == L.count + 1
                      evt == [ type |-> "ShadowDomInconsistent",
                               dom |-> domJson,
                               shadowDom |-> ShadowJson(L.shadow),
                               lastConsistentShadowDom |-> L.lastJson,
                               lastAction |-> lastActionInfo ]
                  IN  IF count1 < 2
                      THEN [ L EXCEPT !.count = count1, !.first = << evt >> ]
                      ELSE [ L EXCEPT
                               !.count = count1,
                               !.instrumented =
                                  Append(@, [ evt |-> evt, firstEvent |-> L.first ]) ]
             ELSE [ L EXCEPT !.count = 0, !.first = << >>, !.lastJson = << domJson >> ]

\* What the mirror makes of the discovery: it follows it, or it fails to
\* place the node discovered last.
DiscoverOutcomes == { "follows", "ignores" }

\* discoverNode(node), for each node of the traversal in turn.
RECURSIVE discoverNodes(_, _, _, _)
discoverNodes(L, ch, nodes, outcome) ==
    IF nodes = << >> THEN L
    ELSE LET n  == Head(nodes)
             parentIndex      == getNodeIndex(L.index, parentNode(ch, n))
             nextSiblingIndex == getNodeIndex(L.index, nextSibling(ch, n))
             r  == IF outcome = "ignores" /\ Tail(nodes) = << >>
                   THEN insertShadowNodeDiverging(L.shadow, L.index, n,
                                                  parentIndex, nextSiblingIndex)
                   ELSE insertShadowNode(L.shadow, L.index, n,
                                         parentIndex, nextSiblingIndex)
             index  == getNodeIndex(r.index, n)
             layout == createGenericLayoutState(ch, r.index, n, "null")
         IN  discoverNodes(
                 [ L EXCEPT
                     !.shadow = r.shadow,
                     !.index  = r.index,
                     !.layoutStates = (index :> layout) @@ @,
                     !.originalLayouts = Append(@, [ node |-> n, layout |-> layout ]) ],
                 ch, Tail(nodes), outcome)

\* discoverDom(): traversal, consistency check, and the timer that starts the
\* backfill with the discovery time.  outcome tells what the mirror makes of
\* the discovery.
discoverDom(L, ch, now, outcome) ==
    LET discoverTime == now
        L1 == discoverNodes(L, ch, traverseNodeTree(ch, << Document >>), outcome)
        L2 == checkConsistency(L1, ch, [ action |-> "DiscoverDom" ])
    IN  [ L2 EXCEPT !.timer = Append(@, discoverTime) ]

\* watch(node, nodeLayoutState)
watch(L, n, nodeLayoutState) ==
    IF NodeTag(n) = "#document" \/ nodeLayoutState.index \in L.watchList
    THEN L
    ELSE LET scrollPossible == nodeLayoutState.scroll
             b1 == IF scrollPossible
                   THEN Append(L.bindings, [ node |-> n, type |-> "scroll",
                                             index |-> nodeLayoutState.index ])
                   ELSE L.bindings
             b2 == IF NodeTag(n) \in { "INPUT", "SELECT" }
                   THEN Append(b1, [ node |-> n, type |-> "change",
                                     index |-> nodeLayoutState.index ])
                   ELSE IF NodeTag(n) = "TEXTAREA"
                        THEN Append(b1, [ node |-> n, type |-> "input",
                                          index |-> nodeLayoutState.index ])
                        ELSE b1
         IN  [ L EXCEPT
                 !.bindings = b2,
                 !.watchList = IF b2 # L.bindings
                               THEN @ \cup { nodeLayoutState.index } ELSE @ ]

\* The exception a read of an undeclared name raises.
ReferenceError(name) ==
    [ thrown |-> TRUE, name |-> "ReferenceError", undeclared |-> name ]

\* createEventState(eventInfo).  The source declares the state as layoutEvent
\* and then reads the name layoutState, which nothing declares: the first
\* statement after the declaration that runs (this.watch(node, layoutState)
\* for Insert and Update, layoutState.index = ... for Remove,
\* layoutState.action = ... for Move, the mutationSequence or source
\* assignment for any other action) throws a ReferenceError before watch is
\* entered and before anything is assigned or returned.
createEventState(eventInfo, ch, idx, at, mutSeq) ==
    LET node == eventInfo.node
        layoutEvent == createLayoutState(ch, idx, at, node)
    IN  ReferenceError("layoutState")

\* The loop of processMultipleNodeEvents.  A throw of createEventState leaves
\* the loop: the events created so far are dropped with the local array.
\* (The call of watch, which the source makes inside createEventState for
\* Insert and Update, is made here with the state createEventState returns.)
RECURSIVE processNodeEvents(_, _, _, _)
processNodeEvents(L, eventInfos, ch, at) ==
    IF eventInfos = << >> THEN L
    ELSE LET eventInfo  == Head(eventInfos)
             eventState == createEventState(eventInfo, ch, L.index, at,
                                            L.mutationSequence)
         IN  IF "thrown" \in DOMAIN eventState
             THEN [ L EXCEPT !.thrown = TRUE ]
             ELSE LET L1 == IF eventInfo.action \in { "Insert", "Update" }
                            THEN watch(L, eventInfo.node, eventState)
                            ELSE L
                      L2 == [ L1 EXCEPT
                                !.eventsData = Append(@, EventData(eventState, Null,
                                                         eventInfo.node, eventInfo.batch,
                                                         eventState)),
                                !.layoutStates = (eventState.index :> eventState) @@ @ ]
                  IN  processNodeEvents(L2, Tail(eventInfos), ch, at)

\* processMultipleNodeEvents(eventInfos): the loop, then addMultipleEvents
\* (not reached when the loop threw).
processMultipleNodeEvents(L, eventInfos, ch, at, now) ==
    LET L1 == processNodeEvents([ L EXCEPT !.eventsData = << >> ],
                                eventInfos, ch, at)
    IN  IF L1.thrown
        THEN [ L1 EXCEPT !.eventsData = << >> ]
        ELSE [ L1 EXCEPT !.layoutEvents = addMultipleEvents(@, L1.eventsData, now),
                         !.eventsData = << >> ]

\* The loop of onDomDiscoverComplete; it ends at the first batch that throws.
RECURSIVE flushQueue(_, _, _, _, _)
flushQueue(L, queue, ch, at, now) ==
    IF queue = << >> \/ L.thrown THEN L
    ELSE flushQueue(processMultipleNodeEvents(L, Head(queue), ch, at, now),
                    Tail(queue), ch, at, now)

\* onDomDiscoverComplete(): marks discovery complete and processes the queued
\* batches in queue order (the queue itself is left as it is).
onDomDiscoverComplete(L, ch, at, now) ==
    flushQueue([ L EXCEPT !.complete = TRUE ], L.queue, ch, at, now)

\* The loop of backfillLayoutsAsync, for the k placeholders the time slice
\* has room for.  (First a variant that keeps the neighbours of the fresh
\* layout instead of the placeholder's.)
RECURSIVE backfillLoop_CurrentNeighbours(_, _, _, _, _)
backfillLoop_CurrentNeighbours(L, k, ch, at, time) ==
    IF k = 0 \/ L.originalLayouts = << >> THEN L
    ELSE LET originalLayout == Head(L.originalLayouts)
             created == createLayoutState(ch, L.index, at, originalLayout.node)
             currentLayoutState ==
                 [ created EXCEPT
                     !.index    = originalLayout.layout.index,
                     !.source   = "Discover",
                     !.action   = "Insert" ]
         IN  backfillLoop_CurrentNeighbours(
                 [ L EXCEPT
                     !.originalLayouts = Tail(@),
                     !.eventsData = Append(@, EventData(currentLayoutState, time,
                                              originalLayout.node, Null, created)),
                     !.layoutStates =
                         (originalLayout.layout.index :> currentLayoutState) @@ @ ],
                 k - 1, ch, at, time)

RECURSIVE backfillLoop(_, _, _, _, _)
backfillLoop(L, k, ch, at, time) ==
    IF k = 0 \/ L.originalLayouts = << >> THEN L
    ELSE LET originalLayout == Head(L.originalLayouts)
             originalLayoutState == originalLayout.layout
             created == createLayoutState(ch, L.index, at, originalLayout.node)
             currentLayoutState ==
                 [ created EXCEPT
                     !.index    = originalLayout.layout.index,
                     !.parent   = originalLayoutState.parent,
                     !.previous = originalLayoutState.previous,
                     !.next     = originalLayoutState.next,
                     !.source   = "Discover",
                     !.action   = "Insert" ]
         IN  backfillLoop(
                 [ L EXCEPT
                     !.originalLayouts = Tail(@),
                     !.eventsData = Append(@, EventData(currentLayoutState, time,
                                              originalLayout.node, Null, created)),
                     !.layoutStates =
                         (originalLayout.layout.index :> currentLayoutState) @@ @ ],
                 k - 1, ch, at, time)

\* backfillLayoutsAsync(time, onDomDiscoverComplete): one time slice.  k is the
\* number of placeholders processed before getTimestamp(true) reaches
\* yieldTime; the slice then hands its events to addMultipleEvents and either
\* re-arms the timer or completes the discovery (whose throw, if any, leaves
\* the slice after everything else it does).
backfillLayoutsAsync(L, k, ch, at, time, now) ==
    LET L1 == backfillLoop([ L EXCEPT !.eventsData = << >>, !.timer = Tail(@) ],
                           k, ch, at, time)
        L2 == [ L1 EXCEPT !.layoutEvents = addMultipleEvents(@, L1.eventsData, now),
                          !.eventsData = << >> ]
    IN  IF Len(L2.originalLayouts) > 0
        THEN [ L2 EXCEPT !.timer = Append(@, time) ]
        ELSE onDomDiscoverComplete(L2, ch, at, now)

\* The event infos pushed for a list of nodes, each with the index its node
\* has in the annotations idx.
EventInfos(nodes, idx, action, time, batch) ==
    [ k \in 1 .. Len(nodes) |->
        [ node   |-> nodes[k],
          index  |-> getNodeIndex(idx, nodes[k]),
          source |-> "Mutation",
          action |-> action,
          time   |-> time,
          batch  |-> batch ] ]

RECURSIVE ClearIndices(_, _)
ClearIndices(idx, removedNodes) ==
    IF removedNodes = << >> THEN idx
    ELSE ClearIndices(
            [ n \in DOMAIN idx |->
                IF n \in Range(Head(removedNodes).subtree) THEN Null ELSE idx[n] ],
            Tail(removedNodes))

\* The loop of processMutations over summary.removedNodes: the info of each
\* removed shadow node carries the index its node has when the loop comes to
\* it, and the index annotation is then deleted from every node of its
\* subtree, before the next removed shadow node is looked at.  Returns the
\* infos and the annotations after the loop.
RECURSIVE RemoveInfos(_, _, _, _)
RemoveInfos(removedNodes, idx, time, batch) ==
    IF removedNodes = << >> THEN [ events |-> << >>, index |-> idx ]
    ELSE LET shadowNode == Head(removedNodes)
             info == EventInfos(<< shadowNode.node >>, idx, "Remove", time, batch)
             rest == RemoveInfos(Tail(removedNodes),
                                 ClearIndices(idx, << shadowNode >>), time, batch)
         IN  [ events |-> info \o rest.events, index |-> rest.index ]

\* processMutations(summary, time): the event infos of the batch, the new
\* nodes first, then the moves, the updates and the removes; the index
\* annotation is deleted from every node of a removed shadow subtree.
\* batch is the number of the batch being processed.
processMutations(summary, idx, time, batch) ==
    LET removes == RemoveInfos(summary.removedNodes, idx, time, batch)
    IN  [ events |->
              EventInfos(summary.newNodes, idx, "Insert", time, batch)
              \o EventInfos(summary.movedNodes, idx, "Move", time, batch)
              \o EventInfos(summary.updatedNodes, idx, "Update", time, batch)
              \o removes.events,
          index  |-> removes.index ]

\* The branch of mutation() that follows processMutations: dispatch the
\* events when discovery is complete, queue them otherwise.
dispatchOrQueue(L, events, ch, at, now) ==
    IF L.complete
    THEN processMultipleNodeEvents(L, events, ch, at, now)
    ELSE [ L EXCEPT !.queue = Append(@, events) ]

\* mutation(mutations): the observer's callback.  outcome tells what the
\* mirror makes of this batch.  The closing this.mutationSequence++ is not
\* reached when processMultipleNodeEvents threw.
mutation(L, records, outcome, ch, at, now) ==
    LET L4 ==
          IF allowMutation(L)
          THEN LET time == now
                   r  == CASE outcome = "ignores" ->
                                applyMutationBatchDiverging(L.shadow, L.index, ch, records)
                           [] outcome = "removes" ->
                                applyMutationBatchRemovesOnly(L.shadow, L.index, ch, records)
                           [] OTHER ->
                                applyMutationBatch(L.shadow, L.index, ch, records)
                   L1 == [ L EXCEPT !.shadow = r.shadow, !.index = r.index ]
                   actionInfo == [ action |-> "Mutation",
                                   mutationSequence |-> L.mutationSequence,
                                   batchSize |-> records.count ]
                   L2 == checkConsistency(L1, ch, actionInfo)
               IN  IF allowMutation(L2)
                   THEN LET pm == processMutations(r.summary, L2.index, time,
                                                   L.mutationSequence)
                        IN  dispatchOrQueue([ L2 EXCEPT !.index = pm.index ],
                                            pm.events, ch, at, now)
                   ELSE L2
          ELSE L
    IN  IF L4.thrown THEN L4 ELSE [ L4 EXCEPT !.mutationSequence = @ + 1 ]

\* distanceThreshold
distanceThreshold == 5

\* checkDistance(stateOne, stateTwo).  A state without scroll offsets makes
\* the difference NaN and the comparison false.
checkDistance(stateOne, stateTwo) ==
    /\ stateOne.scrollX # Null /\ stateTwo.scrollX # Null
    /\ LET dx == stateOne.scrollX - stateTwo.scrollX
           dy == stateOne.scrollY - stateTwo.scrollY
       IN  dx * dx + dy * dy > distanceThreshold * distanceThreshold

\* layoutHandler(element, source): the scroll / change / input listener.  pos
\* and value are element.scrollLeft / scrollTop and element.value as the
\* handler reads them.  Without a recorded last state for the index the deep
\* copy throws (JSON.parse of undefined); on a placeholder, whose layout and
\* attributes are null, the write of the scroll offsets or of the value
\* throws.  Either way the listener ends there and nothing is recorded.
layoutHandler(L, n, source, pos, value, now) ==
    LET index == getNodeIndex(L.index, n)
    IN  IF index = Null THEN L
        ELSE IF index \notin DOMAIN L.layoutStates
        THEN [ L EXCEPT !.thrown = TRUE ]
        ELSE LET lastLayoutState == L.layoutStates[index]
                 placeholder == lastLayoutState.attributes = Null
                 copy == [ lastLayoutState EXCEPT !.source = source,
                                                  !.action = "Update" ]
                 newLayoutState ==
                     CASE source = "Scroll" ->
                            [ copy EXCEPT !.scrollX = pos.x, !.scrollY = pos.y ]
                       [] source = "Input" -> [ copy EXCEPT !.value = value ]
                       [] OTHER -> copy
                 recordEvent ==
                     ~ ( source = "Scroll"
                         /\ ~ checkDistance(lastLayoutState, newLayoutState) )
             IN  IF placeholder /\ source \in { "Scroll", "Input" }
                 THEN [ L EXCEPT !.thrown = TRUE ]
                 ELSE IF recordEvent
                 THEN [ L EXCEPT
                          !.layoutStates = (index :> newLayoutState) @@ @,
                          !.layoutEvents =
                             addEvent_core(@, EventData(newLayoutState, Null, n, Null,
                                                        newLayoutState), now) ]
                 ELSE L

\* teardown(): the observer is disconnected (by the caller of this operator)
\* and the index annotation is deleted from the document and from every node
\* that has a shadow node below shadowDocument.
teardown(L) ==
    LET ids == IF ShadowDocumentId \in DOMAIN L.shadow.kids
               THEN Range(shadowOrder(L.shadow, << ShadowDocumentId >>))
               ELSE {}
        nodes == { L.shadow.node[i] : i \in ids }
    IN  [ L EXCEPT !.index = [ n \in DOMAIN @ |->
                                 IF n \in nodes THEN Null ELSE @[n] ] ]

\* reset(): fresh fields.  Timers set by an earlier activation stay pending.
reset(L) ==
    [ L EXCEPT !.shadow = EmptyShadowDom,
               !.count = 0,
               !.watchList = {},
               !.mutationSequence = 0,
               !.complete = FALSE,
               !.queue = << >>,
               !.lastJson = << >>,
               !.first = << >>,
               !.layoutStates = << >>,
               !.originalLayouts = << >> ]

\* ---- actions ----

CommitLayout(L) ==
    /\ shadowDom' = L.shadow
    /\ nodeIndex' = L.index
    /\ inconsistentShadowDomCount' = L.count
    /\ firstShadowDomInconsistentEvent' = L.first
    /\ lastConsistentDomJson' = L.lastJson
    /\ watchList' = L.watchList
    /\ mutationSequence' = L.mutationSequence
    /\ domPreDiscoverMutations' = L.queue
    /\ domDiscoverComplete' = L.complete
    /\ layoutStates' = L.layoutStates
    /\ originalLayouts' = L.originalLayouts
    /\ backfillTimer' = L.timer
    /\ layoutEvents' = L.layoutEvents
    /\ instrumented' = L.instrumented
    /\ bindings' = L.bindings
    /\ uncaught' = L.thrown

\* Every foreground task runs at the current clock value and the clock has
\* advanced when the next one starts.
Tick == IF clock < MaxClock THEN clock + 1 ELSE clock

\* The queue of the observer: the records not yet delivered (list, count),
\* the targets of the attributes records among them (touched), and the nodes
\* removed from an observed parent since the last delivery (transient): the
\* observer keeps watching the subtree of such a node until its callback
\* runs.
NoRecords == [ count |-> 0, touched |-> {}, list |-> << >>, transient |-> {} ]

\* Whether the observer, which observes the document with subtree: true,
\* records a change of the children of q: q is in the document, or below a
\* node removed since the last delivery.
Observed(ch, pending, q) ==
    \/ q \in Attached(ch)
    \/ \E t \in pending.transient : q \in Subtree(ch, t)

\* The records the observer queues.  appendChild puts the node last, so the
\* record of an addition has no next sibling.
ChildListRecord(target, added, removed) ==
    [ type |-> "childList", target |-> target,
      addedNode |-> added, removedNode |-> removed ]

AttributesRecord(target) ==
    [ type |-> "attributes", target |-> target,
      addedNode |-> Null, removedNode |-> Null ]

\* The records of parent.appendChild(node): the removal from the old parent,
\* when the node has one that is observed, and the addition to the new one.
AppendChildRecords(ch, pending, p, n) ==
    LET q == parentNode(ch, n)
    IN  (IF q # Null /\ Observed(ch, pending, q)
         THEN << ChildListRecord(q, Null, n) >> ELSE << >>)
        \o << ChildListRecord(p, n, Null) >>

\* The queue after the records of one DOM operation were added to it; the
\* removed nodes among them are watched from now on.
QueueRecords(pending, list, touched) ==
    [ count     |-> pending.count + Len(list),
      touched   |-> pending.touched \cup touched,
      list      |-> pending.list \o list,
      transient |-> pending.transient
                      \cup ({ list[k].removedNode : k \in 1 .. Len(list) } \ { Null }) ]

\* The documents a session may start on (detached nodes have no parent).
Tree(k1, k2, k3) == (1 :> k1) @@ (2 :> k2) @@ (3 :> k3) @@ (4 :> << >>)

InitialDocuments ==
    { Tree(<< 2 >>, << 3 >>, << 4 >>),
      Tree(<< 2 >>, << 3, 4 >>, << >>),
      Tree(<< 2 >>, << 3 >>, << >>) }

\* reset(): the fields of a fresh Layout plugin.
LayoutReset ==
    /\ phase = "reset"
    /\ shadowDom = EmptyShadowDom
    /\ inconsistentShadowDomCount = 0
    /\ watchList = {}
    /\ mutationSequence = 0
    /\ domDiscoverComplete = FALSE
    /\ domPreDiscoverMutations = << >>
    /\ lastConsistentDomJson = << >>
    /\ firstShadowDomInconsistentEvent = << >>
    /\ layoutStates = << >>
    /\ originalLayouts = << >>
    /\ backfillTimer = << >>
    /\ discovered = << >>
    /\ uncaught = FALSE

PageInit ==
    /\ children \in InitialDocuments
    /\ attrs = [ n \in Nodes |-> 0 ]
    /\ nodeIndex = [ n \in Nodes |-> Null ]
    /\ pendingRecords = NoRecords
    /\ opsDone = 0
    /\ clock = 0

\* The user has not touched the page.
UserInit ==
    /\ scrollPos = ScrollOrigin
    /\ inputValue = 0
    /\ interactions = 0
    /\ activations = 0

CoreInit ==
    /\ layoutEvents = << >>
    /\ instrumented = << >>
    /\ bindings = << >>

\* activate(): discovers the document and starts observing it.
Discovery(outcome) ==
    /\ phase = "reset"
    /\ activations < MaxSessions
    /\ phase' = "active"
    /\ activations' = activations + 1
    /\ CommitLayout(discoverDom(LayoutState, children, clock, outcome))
    /\ discovered' = [ k \in 1 .. Len(originalLayouts') |->
                         [ node   |-> originalLayouts'[k].node,
                           layout |-> originalLayouts'[k].layout,
                           time   |-> clock ] ]
    /\ clock' = Tick
    /\ UNCHANGED << batcherVars, pluginVars, opLimit, scrollPos, inputValue, interactions,
                    children, attrs, pendingRecords, opsDone,
                    validateConsistency >>

Activate == \E outcome \in DiscoverOutcomes : Discovery(outcome)

\* activate() with a mirror that places every node it is given.
ActivateMirrored == Discovery("follows")

\* The page appends a node to a container (an insertion when the node is
\* detached, a move otherwise); the observer queues the childList records.
PageAppendChild ==
    /\ phase = "active"
    /\ opsDone < opLimit
    /\ \E p \in Nodes, n \in Nodes :
         /\ CanAppend(children, p, n)
         /\ children' = DomAppendChild(children, p, n)
         /\ pendingRecords' = QueueRecords(pendingRecords,
                                           AppendChildRecords(children, pendingRecords, p, n), {})
    /\ opsDone' = opsDone + 1
    /\ UNCHANGED << batcherVars, pluginVars, userVars, attrs, nodeIndex, clock, layoutVars,
                    coreVars >>

\* The page removes an attached node; the observer queues a childList record.
PageRemoveChild ==
    /\ phase = "active"
    /\ opsDone < opLimit
    /\ \E n \in Attached(children) \ { Document } :
         /\ children' = DomRemoveChild(children, n)
         /\ pendingRecords' = QueueRecords(pendingRecords,
                << ChildListRecord(parentNode(children, n), Null, n) >>, {})
    /\ opsDone' = opsDone + 1
    /\ UNCHANGED << batcherVars, pluginVars, userVars, attrs, nodeIndex, clock, layoutVars,
                    coreVars >>

\* The page changes an attribute of an attached element; the observer queues
\* an attributes record.
PageSetAttribute ==
    /\ phase = "active"
    /\ opsDone < opLimit
    /\ \E n \in Attached(children) \ { Document } :
         /\ attrs' = [ attrs EXCEPT ![n] = 1 - @ ]
         /\ pendingRecords' = QueueRecords(pendingRecords,
                                           << AttributesRecord(n) >>, { n })
    /\ opsDone' = opsDone + 1
    /\ UNCHANGED << batcherVars, pluginVars, userVars, children, nodeIndex, clock, layoutVars,
                    coreVars >>

\* The observer delivers the queued records as one batch to mutation().
MutationCallback ==
    /\ phase = "active"
    /\ pendingRecords.count > 0
    /\ \E outcome \in MirrorOutcomes :
         CommitLayout(mutation(LayoutState, pendingRecords, outcome,
                               children, attrs, clock))
    /\ pendingRecords' = NoRecords
    /\ clock' = Tick
    /\ UNCHANGED << batcherVars, pluginVars, userVars, children, attrs, opsDone, phase,
                    validateConsistency, discovered >>

\* The oldest zero-delay timer fires and runs one slice of
\* backfillLayoutsAsync.  It is a task of its own: it runs when no mutation
\* records wait for delivery.  Nothing cancels the timer, so it also fires
\* after teardown() and after reset(), on the fields as they then are.
BackfillTask ==
    /\ backfillTimer # << >>
    /\ pendingRecords.count = 0
    /\ \E k \in 0 .. Len(originalLayouts) :
         CommitLayout(backfillLayoutsAsync(LayoutState, k, children, attrs,
                                           backfillTimer[1], clock))
    /\ clock' = Tick
    /\ UNCHANGED << batcherVars, pluginVars, userVars, children, attrs, pendingRecords,
                    opsDone, phase, validateConsistency, discovered >>

\* The host stops the plugin: teardown().  Records the observer has not
\* delivered are discarded with it.
Teardown ==
    /\ phase = "active"
    /\ phase' = "torndown"
    /\ CommitLayout(teardown(LayoutState))
    /\ pendingRecords' = NoRecords
    /\ UNCHANGED << batcherVars, pluginVars, userVars, children, attrs, opsDone, clock,
                    validateConsistency, discovered >>

\* The host prepares a new start: reset().
Reset ==
    /\ phase = "torndown"
    /\ phase' = "reset"
    /\ CommitLayout(reset(LayoutState))
    /\ UNCHANGED << batcherVars, pluginVars, userVars, children, attrs, pendingRecords,
                    opsDone, clock, validateConsistency, discovered >>

\* The observer delivers the queued records as one batch to mutation() and
\* the mirror applies the batch as its contract says.
MutationApplied ==
    /\ phase = "active"
    /\ pendingRecords.count > 0
    /\ CommitLayout(mutation(LayoutState, pendingRecords, "follows",
                             children, attrs, clock))
    /\ pendingRecords' = NoRecords
    /\ clock' = Tick
    /\ UNCHANGED << batcherVars, pluginVars, userVars, children, attrs, opsDone, phase,
                    validateConsistency, discovered >>

Listening(n, type) ==
    /\ phase = "active"
    /\ \E k \in 1 .. Len(bindings) : bindings[k].node = n /\ bindings[k].type = type

\* The user scrolls the scrollable element; its scroll listener, if one is
\* registered, runs layoutHandler.
PageScroll ==
    /\ phase = "active"
    /\ interactions < MaxInteractions
    /\ 3 \in Attached(children)
    /\ interactions' = interactions + 1
    /\ \E pos \in ScrollPositions \ { scrollPos } :
         /\ scrollPos' = pos
         /\ IF Listening(3, "scroll")
            THEN /\ CommitLayout(layoutHandler(LayoutState, 3, "Scroll", pos,
                                               inputValue, clock))
                 /\ clock' = Tick
            ELSE UNCHANGED << layoutVars, coreVars, nodeIndex, clock >>
    /\ UNCHANGED << batcherVars, pluginVars, opLimit, inputValue, activations, children, attrs,
                    pendingRecords, opsDone, phase, validateConsistency,
                    discovered >>

\* The user changes the value of the input element; its change listener, if
\* one is registered, runs layoutHandler.
PageInput ==
    /\ phase = "active"
    /\ interactions < MaxInteractions
    /\ 4 \in Attached(children)
    /\ interactions' = interactions + 1
    /\ inputValue' = 1 - inputValue
    /\ IF Listening(4, "change")
       THEN /\ CommitLayout(layoutHandler(LayoutState, 4, "Input", scrollPos,
                                          1 - inputValue, clock))
            /\ clock' = Tick
       ELSE UNCHANGED << layoutVars, coreVars, nodeIndex, clock >>
    /\ UNCHANGED << batcherVars, pluginVars, opLimit, scrollPos, activations, children, attrs,
                    pendingRecords, opsDone, phase, validateConsistency,
                    discovered >>

NextLayout ==
    \/ Activate
    \/ PageAppendChild
    \/ PageRemoveChild
    \/ PageSetAttribute
    \/ MutationCallback
    \/ BackfillTask

(***************************************************************************)
(* Part III.  The other plugins: the error monitor, the performance        *)
(* profiler and the pointer tracker.                                       *)
(***************************************************************************)

\* The value of a property that is not set.
Undefined == "undefined"

\* Bound: the number of error events the page raises.
MaxErrors == 2

\* The error events the page raises.  error is "object" when event.error is
\* an Error, "null" when it is null (an error of a foreign script) and
\* "absent" when the event has no such property; errorMessage and errorStack
\* are the fields of that Error.
ErrorEventInputs ==
    [ error        : { "object", "null", "absent" },
      errorMessage : { "inner" },
      errorStack   : { "at f" },
      message      : { "boom", Undefined },
      filename     : { "f.js", "g.js" },
      lineno       : { 1, 2 },
      colno        : { 5 } ]

\* instrument(Instrumentation.<type>, data) of the core: one instrumentation
\* event per call, appended to the log.
instrument(log, type, data) == Append(log, [ type |-> type, data |-> data ])

\* logError(errorToLog).  error is errorToLog["error"] || errorToLog: the
\* error object when it is truthy, the event otherwise (a CustomEvent has no
\* stack).  (First a variant that always reads the event.)
logError_FromEvent(log, errorToLog) ==
    instrument(log, "JsError",
               [ message |-> errorToLog.message,
                 stack   |-> Undefined,
                 lineno  |-> errorToLog.lineno,
                 colno   |-> errorToLog.colno,
                 source  |-> errorToLog.filename ])

logError(log, errorToLog) ==
    LET fromError == errorToLog.error = "object"
        source  == errorToLog.filename
        lineno  == errorToLog.lineno
        colno   == errorToLog.colno
        message == IF fromError THEN errorToLog.errorMessage ELSE errorToLog.message
        stack   == IF fromError THEN errorToLog.errorStack ELSE Undefined
    IN  instrument(log, "JsError",
                   [ message |-> message,
                     stack   |-> stack,
                     lineno  |-> lineno,
                     colno   |-> colno,
                     source  |-> source ])

\* The global object, as a target of bind.
Window == 0

\* ErrorMonitor.activate(): logError becomes the window's error listener.
ErrorMonitorActivate ==
    /\ \A k \in 1 .. Len(bindings) : bindings[k].node # Window
    /\ bindings' = Append(bindings, [ node |-> Window, type |-> "error",
                                      index |-> Null ])
    /\ UNCHANGED << batcherVars, pageVars, userVars, layoutVars, layoutEvents,
                    instrumented, pluginVars >>

\* logError(errorToLog) is called: by the window's error listener, or
\* directly (the function is exported, and the tests call it so).
OnError ==
    /\ Len(errorEvents) < MaxErrors
    /\ \E errorToLog \in ErrorEventInputs :
         /\ instrumented' = logError(instrumented, errorToLog)
         /\ errorEvents' = Append(errorEvents, errorToLog)
    /\ UNCHANGED << batcherVars, pageVars, userVars, layoutVars, layoutEvents,
                    bindings, performanceVars, pointerVars >>

NextErrors ==
    \/ ErrorMonitorActivate
    \/ OnError

\* ---- the performance profiler ----

\* Bounds: the number of resources the page loads and the number of polls.
MaxEntries == 3

MaxPolls == 3

\* The state of the profiler and the instrumentation log as one record.
ProfilerState ==
    [ last       |-> lastInspectedEntryIndex,
      incomplete |-> incompleteEntryIndices,
      networkData |-> << >>,
      log        |-> instrumented ]

\* inspectEntry(entries, index): a complete entry (responseEnd > 0) joins the
\* data of this poll, an incomplete one is noted for the next poll.  Indices
\* count from 0.
inspectEntry(P, entries, index) ==
    IF entries[index + 1].responseEnd > 0
    THEN [ P EXCEPT !.networkData = Append(@, entries[index + 1]) ]
    ELSE [ P EXCEPT !.incomplete = Append(@, index) ]

RECURSIVE inspectEntries(_, _, _)
inspectEntries(P, entries, indices) ==
    IF indices = << >> THEN P
    ELSE inspectEntries(inspectEntry(P, entries, Head(indices)), entries,
                        Tail(indices))

\* One poll of the resource timings: the entries noted as incomplete are
\* looked at again, then the entries that arrived since the last poll; the
\* complete ones among them are sent in one ResourceTiming event, and no event
\* is sent when there is none.  (First a variant that forgets the incomplete
\* entries.)
logResourceTiming_NoRevisit(P, entries) ==
    LET fresh == [ k \in 1 .. (Len(entries) - 1 - P.last) |-> P.last + k ]
        P1 == inspectEntries([ P EXCEPT !.incomplete = << >> ], entries, fresh)
        P2 == [ P1 EXCEPT !.last = Len(entries) - 1, !.incomplete = << >> ]
    IN  IF P2.networkData # << >>
        THEN [ P2 EXCEPT !.log = instrument(@, "ResourceTiming",
                                            [ entries |-> P2.networkData ]) ]
        ELSE P2

logResourceTiming(P, entries) ==
    LET revisit == P.incomplete
        fresh == [ k \in 1 .. (Len(entries) - 1 - P.last) |-> P.last + k ]
        P1 == inspectEntries([ P EXCEPT !.incomplete = << >> ], entries,
                             revisit \o fresh)
        P2 == [ P1 EXCEPT !.last = Len(entries) - 1 ]
    IN  IF P2.networkData # << >>
        THEN [ P2 EXCEPT !.log = instrument(@, "ResourceTiming",
                                            [ entries |-> P2.networkData ]) ]
        ELSE P2

\* The page starts loading a resource: a new entry, complete at once or not.
PageResourceStarts ==
    /\ Len(resourceTimings) < MaxEntries
    /\ \E responseEnd \in { 0, 1 } :
         resourceTimings' = Append(resourceTimings,
                                   [ id |-> Len(resourceTimings) + 1,
                                     responseEnd |-> responseEnd ])
    /\ UNCHANGED << batcherVars, pageVars, userVars, layoutVars, coreVars,
                    errorVars, lastInspectedEntryIndex, incompleteEntryIndices,
                    polls, pointerVars >>

\* A resource finishes loading: its entry gets its responseEnd.
PageResourceCompletes ==
    /\ \E i \in 1 .. Len(resourceTimings) :
         /\ resourceTimings[i].responseEnd = 0
         /\ resourceTimings' = [ resourceTimings EXCEPT ![i].responseEnd = 1 ]
    /\ UNCHANGED << batcherVars, pageVars, userVars, layoutVars, coreVars,
                    errorVars, lastInspectedEntryIndex, incompleteEntryIndices,
                    polls, pointerVars >>

\* The poll timer fires.
PerformancePoll ==
    /\ polls < MaxPolls
    /\ polls' = polls + 1
    /\ LET P == logResourceTiming(ProfilerState, resourceTimings)
       IN  /\ lastInspectedEntryIndex' = P.last
           /\ incompleteEntryIndices' = P.incomplete
           /\ instrumented' = P.log
    /\ UNCHANGED << batcherVars, pageVars, userVars, layoutVars, layoutEvents,
                    bindings, errorVars, resourceTimings, pointerVars >>

NextPerformance ==
    \/ PageResourceStarts
    \/ PageResourceCompletes
    \/ PerformancePoll

\* ---- the Pointer plugin ----

\* Bounds: the number of pointer states the user causes, and the number of
\* states handler.transform(evt) makes of one event (one per changed touch).
MaxPointerStates == 3

StatesPerEvent == 2

\* distanceThreshold and timeThreshold of class Pointer.
Pointer_distanceThreshold == 20

Pointer_timeThreshold == 500

\* lastMoveState = null.
NoPointerState == [ type |-> "null", x |-> 0, y |-> 0 ]

\* The pointer states handler.transform(evt) produces: two kinds of move and
\* one other kind, at points 20 and 21 pixels from the origin and closer to
\* each other.
PointerPoints ==
    { [ x |-> 0, y |-> 0 ], [ x |-> 12, y |-> 16 ], [ x |-> 21, y |-> 0 ] }

PointerStateInputs ==
    { [ type |-> t, x |-> p.x, y |-> p.y ] :
        t \in { "mousemove", "touchmove", "mousedown" }, p \in PointerPoints }

\* The time between two pointer events: two of the shorter make exactly the
\* time threshold, one of the longer exceeds it.
PointerDelays == { 250, 501 }

\* The Pointer plugin's fields and the events it has passed to addEvent.
PointerState ==
    [ lastMoveState |-> lastMoveState,
      lastMoveTime  |-> lastMoveTime,
      events        |-> pointerEvents ]

\* checkDistance(stateOne, stateTwo).  (First a variant that also lets a
\* move of exactly the threshold through.)
Pointer_checkDistance_AtLeast(stateOne, stateTwo) ==
    LET dx == stateOne.x - stateTwo.x
        dy == stateOne.y - stateTwo.y
    IN  dx * dx + dy * dy >= Pointer_distanceThreshold * Pointer_distanceThreshold

Pointer_checkDistance(stateOne, stateTwo) ==
    LET dx == stateOne.x - stateTwo.x
        dy == stateOne.y - stateTwo.y
    IN  dx * dx + dy * dy > Pointer_distanceThreshold * Pointer_distanceThreshold

\* checkTime(time)
Pointer_checkTime(P, time) == time - P.lastMoveTime > Pointer_timeThreshold

\* addEvent({type: this.eventName, data: {state}}).  time is history: the
\* time stamp of the DOM event the state came from.
Pointer_addEvent(P, state, time) ==
    [ P EXCEPT !.events = Append(@, [ type |-> "Pointer",
                                      data |-> [ state |-> state ],
                                      time |-> time ]) ]

\* processState(state, time)
processState(P, state, time) ==
    IF state.type \in { "mousemove", "touchmove" }
    THEN IF \/ P.lastMoveState = NoPointerState
            \/ Pointer_checkDistance(P.lastMoveState, state)
            \/ Pointer_checkTime(P, time)
         THEN Pointer_addEvent([ P EXCEPT !.lastMoveState = state,
                                          !.lastMoveTime = time ],
                               state, time)
         ELSE P
    ELSE Pointer_addEvent(P, state, time)

\* The time stamp of the last pointer event.
LastTimeStamp ==
    IF pointerStates = << >> THEN 0 ELSE pointerStates[Len(pointerStates)].time

\* The loop of pointerHandler(handler, evt): every state of the event is
\* processed, in order, with the event's time stamp.
RECURSIVE pointerHandler(_, _, _)
pointerHandler(P, states, time) ==
    IF states = << >> THEN P
    ELSE pointerHandler(processState(P, Head(states), time), Tail(states), time)

\* Pointer.activate(): pointerHandler becomes the document's listener for the
\* nine kinds of mouse and touch event.
PointerActivate ==
    /\ \A k \in 1 .. Len(bindings) : bindings[k].node # Document
    /\ bindings' = bindings \o
         [ k \in 1 .. 9 |->
             [ node  |-> Document,
               type  |-> << "mousedown", "mouseup", "mousemove", "mousewheel",
                            "click", "touchstart", "touchend", "touchmove",
                            "touchcancel" >>[k],
               index |-> Null ] ]
    /\ UNCHANGED << batcherVars, pageVars, userVars, layoutVars, layoutEvents,
                    instrumented, pluginVars >>

\* A mouse or touch event reaches the document's listener: pointerHandler
\* processes the states handler.transform(evt) makes of it, all of the
\* event's type: one for a mouse event, one per changed touch for a touch
\* event.
PointerEvent ==
    /\ \E k \in 1 .. Len(bindings) : bindings[k].node = Document
    /\ \E n \in 1 .. StatesPerEvent, delay \in PointerDelays :
         /\ Len(pointerStates) + n <= MaxPointerStates
         /\ \E states \in [ 1 .. n -> PointerStateInputs ] :
              /\ \A k \in 1 .. n : states[k].type = states[1].type
              /\ n > 1 => states[1].type = "touchmove"
              /\ LET time == LastTimeStamp + delay
                  P == pointerHandler(PointerState, states, time)
                 IN  /\ lastMoveState' = P.lastMoveState
                     /\ lastMoveTime' = P.lastMoveTime
                     /\ pointerEvents' = P.events
                     /\ pointerStates' = pointerStates \o
                           [ k \in 1 .. n |-> [ state |-> states[k], time |-> time ] ]
    /\ UNCHANGED << batcherVars, pageVars, userVars, layoutVars, coreVars,
                    errorVars, performanceVars, pointerResetAt >>

\* reset()
PointerReset ==
    /\ lastMoveState' = NoPointerState
    /\ lastMoveTime' = 0
    /\ pointerResetAt' = Len(pointerEvents)
    /\ UNCHANGED << batcherVars, pageVars, userVars, layoutVars, coreVars,
                    errorVars, performanceVars, pointerEvents, pointerStates >>

NextPointer ==
    \/ PointerActivate
    \/ PointerEvent
    \/ PointerReset

PluginInit ==
    /\ errorEvents = << >>
    /\ resourceTimings = << >>
    /\ lastInspectedEntryIndex = -1
    /\ incompleteEntryIndices = << >>
    /\ polls = 0
    /\ lastMoveState = NoPointerState
    /\ lastMoveTime = 0
    /\ pointerEvents = << >>
    /\ pointerStates = << >>
    /\ pointerResetAt = 0

(***************************************************************************)
(* Specifications.                                                         *)
(***************************************************************************)

\* The Batcher alone; the page and the tracker stay as constructed.
InitBatcher ==
    /\ WorkerInit
    /\ children = Tree(<< 2 >>, << 3 >>, << 4 >>)
    /\ attrs = [ n \in Nodes |-> 0 ]
    /\ nodeIndex = [ n \in Nodes |-> Null ]
    /\ pendingRecords = NoRecords
    /\ opsDone = 0
    /\ clock = 0
    /\ opLimit = 0
    /\ UserInit
    /\ validateConsistency = TRUE
    /\ LayoutReset
    /\ CoreInit
    /\ PluginInit

SpecBatcher == InitBatcher /\ [][NextBatcher]_vars

\* The Layout tracker on a page; the worker stays as constructed.
InitLayout ==
    /\ WorkerInit
    /\ PageInit
    /\ opLimit = MaxOps
    /\ UserInit
    /\ validateConsistency \in BOOLEAN
    /\ LayoutReset
    /\ CoreInit
    /\ PluginInit

SpecLayout == InitLayout /\ [][NextLayout]_vars

\* Degraded mode: consistency validation is on, the page appends nodes (one
\* operation more than elsewhere, so that a batch can follow two diverging
\* ones), the host may stop the plugin and reset it.
InitDegraded ==
    /\ WorkerInit
    /\ children = Tree(<< 2 >>, << 3 >>, << >>)
    /\ attrs = [ n \in Nodes |-> 0 ]
    /\ nodeIndex = [ n \in Nodes |-> Null ]
    /\ pendingRecords = NoRecords
    /\ opsDone = 0
    /\ clock = 0
    /\ opLimit = MaxOps + 1
    /\ UserInit
    /\ validateConsistency = TRUE
    /\ LayoutReset
    /\ CoreInit
    /\ PluginInit

NextDegraded ==
    \/ Activate
    \/ PageAppendChild
    \/ MutationCallback
    \/ BackfillTask
    \/ Teardown
    \/ Reset

SpecDegraded == InitDegraded /\ [][NextDegraded]_vars

\* Teardown: the page changes its tree, the host stops the plugin.
InitTeardown ==
    /\ WorkerInit
    /\ PageInit
    /\ opLimit = MaxOps
    /\ UserInit
    /\ validateConsistency = TRUE
    /\ LayoutReset
    /\ CoreInit
    /\ PluginInit

NextTeardown ==
    \/ Activate
    \/ PageAppendChild
    \/ PageRemoveChild
    \/ MutationCallback
    \/ BackfillTask
    \/ Teardown

SpecTeardown == InitTeardown /\ [][NextTeardown]_vars

\* The watched elements: the page changes attributes, the user scrolls and
\* types.
InitWatch ==
    /\ WorkerInit
    /\ PageInit
    /\ opLimit = MaxOps
    /\ UserInit
    /\ validateConsistency = FALSE
    /\ LayoutReset
    /\ CoreInit
    /\ PluginInit

NextWatch ==
    \/ Activate
    \/ PageSetAttribute
    \/ MutationCallback
    \/ BackfillTask
    \/ PageScroll
    \/ PageInput

SpecWatch == InitWatch /\ [][NextWatch]_vars

\* The mirror at work: the page changes its tree and its attributes and the
\* mirror applies every batch.
InitMirror ==
    /\ WorkerInit
    /\ PageInit
    /\ opLimit = MaxOps
    /\ UserInit
    /\ validateConsistency = TRUE
    /\ LayoutReset
    /\ CoreInit
    /\ PluginInit

NextMirror ==
    \/ ActivateMirrored
    \/ PageAppendChild
    \/ PageRemoveChild
    \/ PageSetAttribute
    \/ MutationApplied
    \/ BackfillTask

SpecMirror == InitMirror /\ [][NextMirror]_vars

\* The error monitor alone.
InitErrors ==
    /\ WorkerInit
    /\ children = Tree(<< 2 >>, << 3 >>, << 4 >>)
    /\ attrs = [ n \in Nodes |-> 0 ]
    /\ nodeIndex = [ n \in Nodes |-> Null ]
    /\ pendingRecords = NoRecords
    /\ opsDone = 0
    /\ clock = 0
    /\ opLimit = 0
    /\ UserInit
    /\ validateConsistency = TRUE
    /\ LayoutReset
    /\ CoreInit
    /\ PluginInit

SpecErrors == InitErrors /\ [][NextErrors]_vars

\* The performance profiler alone.
SpecPerformance == InitErrors /\ [][NextPerformance]_vars

\* The Pointer plugin alone.
SpecPointer == InitErrors /\ [][NextPointer]_vars

(***************************************************************************)
(* Claims about the Batcher.                                               *)
(***************************************************************************)

BatchIds(batch) == { batch.events[i].id : i \in 1 .. Len(batch.events) }

\* C1: the sequenceNumber values of the emitted CompressedBatch messages, in
\* emission order, are exactly 0, 1, 2, ..., k, also when flushes were
\* suppressed for a lone XhrError batch in between.
C1_SequenceNumbersGapFree ==
    /\ \A i \in 1 .. Len(posted) : posted[i].sequenceNumber = i - 1
    /\ sequence = Len(posted)

\* Two batches were emitted and the second one starts with an event that had
\* been withheld by a suppressed flush.
C1_Witness ==
    /\ Len(posted) >= 2
    /\ posted[2].events[1].id \in withheld

\* C2: the events of the emitted batches in sequenceNumber order, followed by
\* the pending events, are exactly the events received, in arrival order, each
\* once.
C2_OrderPreservedNoDuplicates ==
    ConcatEvents(posted) \o nextBatchEvents = received

\* Two batches emitted, a withheld XhrError event among them, and an event
\* still pending.
C2_Witness ==
    /\ Len(posted) >= 2
    /\ withheld # {}
    /\ nextBatchEvents # << >>

\* C3 (as claimed): every emitted batch with more than one event has a total
\* serialized length of at most batchLimit.
C3_MultiEventBatchWithinLimit ==
    \A i \in 1 .. Len(posted) :
        Len(posted[i].events) > 1 => SumLengths(posted[i].events) <= BatchLimit

\* C4: no emitted batch is empty or a lone XhrError event, and a flush emits a
\* batch iff the pending batch is non-empty and not a lone XhrError event.
C4_FlushEmitsIffNonEmptyNotSingleXhr ==
    /\ \A i \in 1 .. Len(posted) :
         /\ Len(posted[i].events) >= 1
         /\ posted[i].eventCount = Len(posted[i].events)
         /\ ~ IsSingleXhrError(posted[i].events)
    /\ \A i \in 1 .. Len(flushCalls) :
         flushCalls[i].emitted <=> (flushCalls[i].bytes > 0 /\ ~ flushCalls[i].single)
    /\ nextBatchIsSingleXhrErrorEvent = IsSingleXhrError(nextBatchEvents)
    /\ (nextBatchBytes > 0) <=> (nextBatchEvents # << >>)

\* The last message made two flush calls, the first suppressed for a lone
\* XhrError event and the second emitting.
C4_Witness ==
    /\ Len(flushCalls) = 2
    /\ flushCalls[1].single /\ ~ flushCalls[1].emitted
    /\ flushCalls[2].emitted

\* C5 (as claimed): a flush requested while the pending batch is one XhrError
\* event drops it: nothing is emitted, the pending batch is reset, and the
\* event is in no batch emitted later.
C5_SuppressedBatchDropped ==
    /\ \A i \in 1 .. Len(flushCalls) :
         flushCalls[i].single =>
            /\ ~ flushCalls[i].emitted
            /\ flushCalls[i].bytesAfter = 0
            /\ flushCalls[i].eventsAfter = << >>
    /\ \A i \in 1 .. Len(posted) : BatchIds(posted[i]) \cap withheld = {}

\* C5 (amended): such a flush emits nothing and leaves the pending batch as it
\* is; the XhrError event stays first in the pending batch and is emitted as
\* the first event of the next batch, together with the events added after it.
C5_SuppressedBatchWithheld ==
    /\ \A i \in 1 .. Len(flushCalls) :
         flushCalls[i].single =>
            /\ ~ flushCalls[i].emitted
            /\ flushCalls[i].bytesAfter = flushCalls[i].bytes
            /\ flushCalls[i].eventsAfter = flushCalls[i].events
    /\ \A id \in withheld :
         \/ nextBatchEvents # << >> /\ nextBatchEvents[1].id = id
         \/ \E i \in 1 .. Len(posted) :
               /\ posted[i].events[1].id = id
               /\ Len(posted[i].events) >= 2

\* A withheld XhrError event has been emitted with a later event.
C5_Witness ==
    \E i \in 1 .. Len(posted) :
        /\ posted[i].events[1].id \in withheld
        /\ posted[i].events[1].stateType = XhrError

\* C6: an emitted payload carries the metadata iff its sequenceNumber is 0, so
\* exactly one payload of a session, the first emitted, carries it.
C6_MetadataOnlyOnFirst ==
    /\ \A i \in 1 .. Len(posted) :
         posted[i].hasMetadata <=> posted[i].sequenceNumber = 0
    /\ posted # << >> =>
         { i \in 1 .. Len(posted) : posted[i].hasMetadata } = { 1 }

C6_Witness ==
    /\ Len(posted) >= 3
    /\ posted[1].hasMetadata
    /\ ~ posted[3].hasMetadata


(***************************************************************************)
(* Claims about the Layout tracker.                                        *)
(***************************************************************************)

MutationEvents == SelectSeq(layoutEvents, LAMBDA e : e.state.source = "Mutation")

DiscoverEvents == SelectSeq(layoutEvents, LAMBDA e : e.state.source = "Discover")

RECURSIVE Flatten(_)
Flatten(seqs) ==
    IF seqs = << >> THEN << >> ELSE Head(seqs) \o Flatten(Tail(seqs))

\* The event infos waiting in (or flushed from) the pre-discovery queue.
QueuedInfos == Flatten(domPreDiscoverMutations)

QueuedBatches == { QueuedInfos[k].batch : k \in 1 .. Len(QueuedInfos) }

ActionRank(a) ==
    CASE a = "Insert" -> 1 [] a = "Move" -> 2 [] a = "Update" -> 3
      [] a = "Remove" -> 4 [] OTHER -> 0

\* C7 (as claimed): the layout events of one mutation batch are emitted
\* Inserts first, then Moves, then Updates, then Removes, whether the batch
\* was dispatched at once or queued during backfill and flushed later.  (No
\* behaviour emits a Mutation event, createEventState throwing on every call,
\* so the order is never put to the test.)
C7_BatchOrderInsertMoveUpdateRemove ==
    \A i, j \in 1 .. Len(layoutEvents) :
        ( /\ i < j
          /\ layoutEvents[i].state.source = "Mutation"
          /\ layoutEvents[j].state.source = "Mutation"
          /\ layoutEvents[i].batch = layoutEvents[j].batch )
        => /\ ActionRank(layoutEvents[i].state.action) > 0
           /\ ActionRank(layoutEvents[i].state.action)
                <= ActionRank(layoutEvents[j].state.action)

\* Every emitted Mutation event carries the mutationSequence of the batch that
\* produced it, so events of different batches never carry the same one.
C8_State ==
    /\ \A i \in 1 .. Len(layoutEvents) :
         layoutEvents[i].state.source = "Mutation"
            => layoutEvents[i].state.mutationSequence = layoutEvents[i].batch
    /\ \A i, j \in 1 .. Len(layoutEvents) :
         ( /\ layoutEvents[i].state.source = "Mutation"
           /\ layoutEvents[j].state.source = "Mutation"
           /\ layoutEvents[i].batch # layoutEvents[j].batch )
         => layoutEvents[i].state.mutationSequence
              # layoutEvents[j].state.mutationSequence

\* A step in which the observer delivers a batch to mutation().
BatchDelivered ==
    /\ phase = "active" /\ phase' = "active"
    /\ pendingRecords.count > 0 /\ pendingRecords'.count = 0

\* C8 (as claimed): every emitted Mutation event carries the mutationSequence
\* of the batch that produced it, and mutationSequence is strictly increasing
\* across batches: every delivered batch leaves it greater than it found it.
C8_SequenceIncreasesAcrossBatches ==
    [] C8_State /\ [][ BatchDelivered => mutationSequence' > mutationSequence ]_vars

\* C9, the state part: no Mutation event is emitted while discovery is
\* incomplete; once it is complete the Mutation events start with the queued
\* batches' events, each once, in queue order; no Discover event follows a
\* Mutation event.
C9_State ==
    /\ ~ domDiscoverComplete => MutationEvents = << >>
    /\ domDiscoverComplete =>
         /\ Len(MutationEvents) >= Len(QueuedInfos)
         /\ \A k \in 1 .. Len(QueuedInfos) :
              /\ MutationEvents[k].node = QueuedInfos[k].node
              /\ MutationEvents[k].state.action = QueuedInfos[k].action
              /\ MutationEvents[k].batch = QueuedInfos[k].batch
         /\ \A k \in (Len(QueuedInfos) + 1) .. Len(MutationEvents) :
              MutationEvents[k].batch \notin QueuedBatches
    /\ \A i, j \in 1 .. Len(layoutEvents) :
         i < j /\ layoutEvents[i].state.source = "Mutation"
            => layoutEvents[j].state.source # "Discover"
    /\ \A k \in 1 .. Len(QueuedInfos) : QueuedInfos[k].batch < mutationSequence

\* C9, the step part: a batch delivered while discovery is incomplete (and not
\* dropped for inconsistency) is appended to the queue as one entry holding
\* the events of that batch, and the queue changes in no other way.
C9_Step ==
    /\ ( /\ mutationSequence' = mutationSequence + 1
         /\ ~ domDiscoverComplete
         /\ (inconsistentShadowDomCount' < 2 \/ ~ validateConsistency) )
       => /\ Len(domPreDiscoverMutations') = Len(domPreDiscoverMutations) + 1
          /\ SubSeq(domPreDiscoverMutations', 1, Len(domPreDiscoverMutations))
               = domPreDiscoverMutations
          /\ \A k \in 1 .. Len(domPreDiscoverMutations'[Len(domPreDiscoverMutations')]) :
               domPreDiscoverMutations'[Len(domPreDiscoverMutations')][k].batch
                 = mutationSequence
    /\ ~ ( /\ mutationSequence' = mutationSequence + 1
           /\ ~ domDiscoverComplete
           /\ (inconsistentShadowDomCount' < 2 \/ ~ validateConsistency) )
       => domPreDiscoverMutations' = domPreDiscoverMutations

\* C9 (as claimed): while backfill is incomplete no Mutation event is emitted and the
\* events of the batches delivered are queued; when the last placeholder has
\* been upgraded the queued batches are emitted once each in arrival order,
\* so every Discover event precedes every Mutation event.
C9_QueuedUntilDiscoverComplete == [] C9_State /\ [][C9_Step]_vars

\* C10: backfill emits one Discover/Insert event per discovered node, in
\* discovery order, however it is sliced; each carries the discovery time and
\* the index, parent, previous and next recorded at discovery.
C10_BackfillEmitsDiscoveredPlaceholders ==
    /\ Len(DiscoverEvents) + Len(originalLayouts) = Len(discovered)
    /\ domDiscoverComplete => Len(DiscoverEvents) = Len(discovered)
    /\ \A k \in 1 .. Len(DiscoverEvents) :
         /\ DiscoverEvents[k].node = discovered[k].node
         /\ DiscoverEvents[k].state.action = "Insert"
         /\ DiscoverEvents[k].time = discovered[k].time
         /\ DiscoverEvents[k].state.index = discovered[k].layout.index
         /\ DiscoverEvents[k].state.parent = discovered[k].layout.parent
         /\ DiscoverEvents[k].state.previous = discovered[k].layout.previous
         /\ DiscoverEvents[k].state.next = discovered[k].layout.next
    /\ \A k \in 1 .. Len(originalLayouts) :
         originalLayouts[k].node
            = discovered[Len(discovered) - Len(originalLayouts) + k].node

\* A slice has emitted some but not all placeholders, one of them for a node
\* that a mutation had moved since discovery, at a later time than discovery.
C10_Witness ==
    /\ originalLayouts # << >>
    /\ \E k \in 1 .. Len(DiscoverEvents) :
         /\ DiscoverEvents[k].live.parent # DiscoverEvents[k].state.parent
         /\ DiscoverEvents[k].time < clock

(***************************************************************************)
(* Claims about consistency validation and degraded mode.                  *)
(***************************************************************************)

\* Degraded mode.
Degraded == validateConsistency /\ inconsistentShadowDomCount >= 2

\* The annotations as checkConsistency sees them in a step that delivers a
\* batch: those of the end of the step, with the ones processMutations
\* deletes afterwards still in place.
IndexAtCheck ==
    [ n \in Nodes |-> IF nodeIndex'[n] = Null THEN nodeIndex[n] ELSE nodeIndex'[n] ]

\* Whether the mirror agrees with the document at that check.
ConsistentAfter == isConsistent(shadowDom', children', IndexAtCheck)

\* A step in which activate() discovers the document.
DiscoveryRan == phase = "reset" /\ phase' = "active"

\* A step in which checkConsistency runs: after the discovery, or after a
\* batch delivered to a tracker that is not degraded.
CheckRan ==
    validateConsistency /\ (DiscoveryRan \/ (BatchDelivered /\ ~ Degraded))

\* The record checkConsistency builds for a divergence found in this step.
DivergenceRecord ==
    [ type |-> "ShadowDomInconsistent",
      dom |-> DomJson(children', IndexAtCheck),
      shadowDom |-> ShadowJson(shadowDom'),
      lastConsistentShadowDom |-> lastConsistentDomJson,
      lastAction |-> IF DiscoveryRan
                     THEN [ action |-> "DiscoverDom" ]
                     ELSE [ action |-> "Mutation",
                            mutationSequence |-> mutationSequence,
                            batchSize |-> pendingRecords.count ] ]

\* C11 (as claimed): the tracker becomes degraded only in a step that
\* delivers a batch which leaves the mirror inconsistent, the batch delivered
\* before it having left the mirror inconsistent too (the stored first record
\* is that of a mutation batch); and a batch that leaves the mirror
\* consistent sets the count back to 0.
C11_DegradedAfterTwoConsecutive ==
    [][ validateConsistency =>
          /\ (BatchDelivered /\ ~ Degraded /\ ConsistentAfter)
                => inconsistentShadowDomCount' = 0
          /\ (Degraded' /\ ~ Degraded)
                => /\ BatchDelivered /\ ~ ConsistentAfter
                   /\ mutationSequence >= 1
                   /\ firstShadowDomInconsistentEvent[1].lastAction.action
                        = "Mutation" ]_vars

\* C11 (amended): the count moves only in a consistency check and in
\* reset().  A check that finds the mirror consistent sets it to 0 and one
\* that finds it inconsistent adds one, the check made after the discovery
\* like the check made after a batch.  The tracker becomes degraded only in
\* a step that delivers an inconsistent batch while the count is 1, and the
\* count is 1 only after an inconsistent check with no consistent one since:
\* two inconsistent checks in a row degrade the tracker (a discovery and the
\* first batch, or two batches), an inconsistent one followed by a
\* consistent one does not.
C11_Step ==
    validateConsistency =>
      /\ (CheckRan /\ ConsistentAfter)
            => inconsistentShadowDomCount' = 0
      /\ (CheckRan /\ ~ ConsistentAfter)
            => inconsistentShadowDomCount' = inconsistentShadowDomCount + 1
      /\ (~ CheckRan)
            => \/ inconsistentShadowDomCount' = inconsistentShadowDomCount
               \/ phase' = "reset" /\ inconsistentShadowDomCount' = 0
      /\ (Degraded' /\ ~ Degraded)
            => BatchDelivered /\ inconsistentShadowDomCount = 1 /\ ~ ConsistentAfter
      /\ (inconsistentShadowDomCount' = 1 /\ inconsistentShadowDomCount # 1)
            => CheckRan /\ inconsistentShadowDomCount = 0 /\ ~ ConsistentAfter

C11_DegradedAfterTwoChecks == [][C11_Step]_vars

\* The discovery left the mirror inconsistent and so did the first batch:
\* the tracker is degraded after one mutation batch.
C11_Witness ==
    /\ Degraded
    /\ mutationSequence = 1
    /\ Len(instrumented) = 1
    /\ instrumented[1].firstEvent[1].lastAction.action = "DiscoverDom"

\* C12: once the tracker is degraded, every delivered batch is dropped (the
\* mirror, the annotations, the count, the stored records, the event log, the
\* instrumentation log and the queue are left alone) while mutationSequence
\* advances by one; the tracker stays degraded until reset().
C12_Step ==
    Degraded =>
      /\ BatchDelivered =>
            /\ mutationSequence' = mutationSequence + 1
            /\ UNCHANGED << shadowDom, nodeIndex, inconsistentShadowDomCount,
                            firstShadowDomInconsistentEvent, lastConsistentDomJson,
                            layoutEvents, instrumented, domPreDiscoverMutations,
                            layoutStates, bindings, watchList >>
      /\ Degraded' \/ (phase = "torndown" /\ phase' = "reset")

C12_DegradedAbsorbing == [][C12_Step]_vars

\* A batch was delivered to the degraded tracker.
C12_Witness ==
    /\ Degraded
    /\ mutationSequence > 2

\* C13 (as claimed): every check that finds divergence, after the discovery
\* or after a batch, adds one to the count and emits a ShadowDomInconsistent
\* instrumentation event.
C13_EveryDivergenceEmits ==
    [][ (CheckRan /\ ~ ConsistentAfter)
          => /\ inconsistentShadowDomCount' = inconsistentShadowDomCount + 1
             /\ Len(instrumented') = Len(instrumented) + 1 ]_vars

\* C13 (amended): every check that finds divergence, after the discovery or
\* after a batch, adds one to the count and builds a record with both trees,
\* the last consistent tree and the last routine.  The first divergence of a
\* run only stores the record; the second in a row emits its record with the
\* stored one attached.  A check that finds no divergence emits nothing.
C13_Step ==
    CheckRan =>
       IF ConsistentAfter
       THEN instrumented' = instrumented
       ELSE /\ inconsistentShadowDomCount' = inconsistentShadowDomCount + 1
            /\ IF inconsistentShadowDomCount = 0
               THEN /\ instrumented' = instrumented
                    /\ firstShadowDomInconsistentEvent' = << DivergenceRecord >>
               ELSE instrumented' =
                      Append(instrumented,
                             [ evt |-> DivergenceRecord,
                               firstEvent |-> firstShadowDomInconsistentEvent ])

C13_SecondDivergenceEmits == [][C13_Step]_vars

\* One event was emitted, for the second of two divergences.
C13_Witness ==
    /\ validateConsistency
    /\ Len(instrumented) = 1
    /\ instrumented[1].evt.dom # instrumented[1].evt.shadowDom
    /\ instrumented[1].evt.lastAction.mutationSequence = 1

\* The routine a divergence record names: the discovery, or a batch with its
\* number.
OfDiscovery(r) == r.lastAction.action = "DiscoverDom"

\* C14: while the count is 1 the stored first record is the one of the check
\* made last (of the discovery when no batch was delivered since, of the
\* batch delivered last otherwise); a check that finds no divergence clears
\* it and nothing but a check and reset() touches it; the event of the
\* second divergence in a row carries the record built for that divergence
\* and, as firstEvent, the stored one; batches delivered after it leave the
\* mirror and the logs alone.
C14_State ==
    validateConsistency =>
      /\ inconsistentShadowDomCount = 0 => firstShadowDomInconsistentEvent = << >>
      /\ inconsistentShadowDomCount = 1 =>
           /\ Len(firstShadowDomInconsistentEvent) = 1
           /\ IF OfDiscovery(firstShadowDomInconsistentEvent[1])
              THEN mutationSequence = 0
              ELSE firstShadowDomInconsistentEvent[1].lastAction.mutationSequence
                     = mutationSequence - 1
      /\ Degraded =>
           LET r == instrumented[Len(instrumented)]
           IN  /\ Len(r.firstEvent) = 1
               /\ IF OfDiscovery(r.firstEvent[1])
                  THEN r.evt.lastAction.mutationSequence = 0
                  ELSE r.firstEvent[1].lastAction.mutationSequence + 1
                         = r.evt.lastAction.mutationSequence
               /\ r.firstEvent = firstShadowDomInconsistentEvent

C14_Step ==
    /\ (validateConsistency /\ Degraded' /\ ~ Degraded) =>
          /\ instrumented' = Append(instrumented,
                                    [ evt |-> DivergenceRecord,
                                      firstEvent |-> firstShadowDomInconsistentEvent ])
          /\ instrumented'[Len(instrumented')].evt.lastAction.mutationSequence
                = mutationSequence
    /\ (CheckRan /\ ~ ConsistentAfter /\ inconsistentShadowDomCount = 0) =>
          firstShadowDomInconsistentEvent' = << DivergenceRecord >>
    /\ (CheckRan /\ ConsistentAfter) =>
          firstShadowDomInconsistentEvent' = << >>
    /\ (validateConsistency /\ ~ CheckRan) =>
          \/ firstShadowDomInconsistentEvent' = firstShadowDomInconsistentEvent
          \/ phase' = "reset" /\ firstShadowDomInconsistentEvent' = << >>
    /\ (Degraded /\ BatchDelivered) =>
          UNCHANGED << shadowDom, layoutEvents, instrumented >>

C14_SecondReportCarriesFirst == [] C14_State /\ [][C14_Step]_vars

\* Two batches in a row diverged, the one event emitted carries the record
\* of the first, and a third batch was delivered afterwards.
C14_Witness ==
    /\ Degraded
    /\ mutationSequence = 3
    /\ Len(instrumented) = 1
    /\ ~ OfDiscovery(instrumented[1].firstEvent[1])
    /\ instrumented[1].firstEvent[1].lastAction.mutationSequence = 0
    /\ instrumented[1].evt.lastAction.mutationSequence = 1

(***************************************************************************)
(* Claims about the watched elements.                                      *)
(***************************************************************************)

ScrollEvents(index) ==
    SelectSeq(layoutEvents, LAMBDA e : e.state.source = "Scroll"
                                       /\ e.state.index = index)

Indices == 0 .. (shadowDom.nextIndex - 1)

\* C15 (as claimed): for every index, two consecutive emitted Scroll events
\* are more than distanceThreshold apart, whatever was emitted between them.
\* (No behaviour registers a listener, so none emits a Scroll event.)
C15_ConsecutiveScrollsApart ==
    \A index \in Indices :
      \A k \in 1 .. (Len(ScrollEvents(index)) - 1) :
         LET dx == ScrollEvents(index)[k].state.scrollX
                     - ScrollEvents(index)[k + 1].state.scrollX
             dy == ScrollEvents(index)[k].state.scrollY
                     - ScrollEvents(index)[k + 1].state.scrollY
         IN  dx * dx + dy * dy > distanceThreshold * distanceThreshold

\* The listeners the element of an event should have.
ListenerTypes(e) ==
    (IF e.state.scroll THEN { "scroll" } ELSE {})
    \cup (IF e.state.tag \in { "INPUT", "SELECT" } THEN { "change" } ELSE {})
    \cup (IF e.state.tag = "TEXTAREA" THEN { "input" } ELSE {})

\* C16 (as claimed): every element for which an Insert or Update layout event
\* has been emitted has its listeners registered.
C16_EmittedElementsAreWatched ==
    \A k \in 1 .. Len(layoutEvents) :
       ( /\ layoutEvents[k].state.action \in { "Insert", "Update" }
         /\ layoutEvents[k].state.tag # "#document" )
       => \A t \in ListenerTypes(layoutEvents[k]) :
             \E b \in 1 .. Len(bindings) :
                /\ bindings[b].node = layoutEvents[k].node
                /\ bindings[b].type = t

\* C17 (as claimed): bind is called at most once for each pair of index and
\* listener type, and never for the document node.  (No behaviour calls bind:
\* watch is entered only from createEventState, after the read that throws.)
C17_ListenersBoundOnce ==
    /\ \A a, b \in 1 .. Len(bindings) :
          (bindings[a].index = bindings[b].index /\ bindings[a].type = bindings[b].type)
             => a = b
    /\ \A b \in 1 .. Len(bindings) : NodeTag(bindings[b].node) # "#document"

(***************************************************************************)
(* Claims about teardown and about the indices events carry.               *)
(***************************************************************************)

\* C18 (as claimed): after teardown() no backfill slice runs and no layout
\* event is emitted.
C18_NothingAfterTeardown ==
    [][ (phase = "torndown" /\ phase' = "torndown")
          => UNCHANGED << layoutEvents, originalLayouts, domDiscoverComplete >> ]_vars

\* C19 (as claimed): after teardown() no node carries an index annotation.
C19_NoAnnotationAfterTeardown ==
    phase = "torndown" => \A n \in Nodes : nodeIndex[n] = Null

\* The events a step emits.
NewEvents == SubSeq(layoutEvents', Len(layoutEvents) + 1, Len(layoutEvents'))

\* C20 (as claimed): every layout event other than a Remove carries, when it
\* is emitted, the index of a node that has a shadow node and that index as
\* its annotation.
C20_EmittedIndexHasShadowNode ==
    [][ \A k \in 1 .. Len(NewEvents) :
          NewEvents[k].state.action # "Remove"
            => /\ NewEvents[k].state.index # Null
               /\ NewEvents[k].state.index \in DOMAIN shadowDom'.node
               /\ nodeIndex'[NewEvents[k].node] = NewEvents[k].state.index ]_vars

(***************************************************************************)
(* Claims about the mirror, the backfill and the remaining plugins.        *)
(***************************************************************************)

\* C21: when the mirror applies every batch, then after discovery and after
\* every completed batch the shadow tree and the live tree are equal as trees
\* of indices (isConsistent() holds), the tracker never counts a divergence
\* and reports none.
C21_ConsistentAfterEveryBatch ==
    (phase = "active" /\ pendingRecords.count = 0)
        => /\ isConsistent(shadowDom, children, nodeIndex)
           /\ inconsistentShadowDomCount = 0
           /\ instrumented = << >>

\* Two batches were processed: a node was removed by one and inserted again
\* by the other (it took a fresh index, the fifth), and the trees agree.
C21_Witness ==
    /\ phase = "active"
    /\ pendingRecords.count = 0
    /\ mutationSequence = 2
    /\ shadowDom.nextIndex = 5
    /\ isConsistent(shadowDom, children, nodeIndex)

\* C22: every call of logError emits exactly one JsError instrumentation
\* event, equal events included; its message is that of the event's error
\* object when the event has one and the event's own otherwise, and its
\* source, lineno and colno are the event's filename, lineno and colno.
C22_OneJsErrorPerCall ==
    /\ Len(instrumented) = Len(errorEvents)
    /\ \A k \in 1 .. Len(errorEvents) :
         LET e == errorEvents[k]
             d == instrumented[k].data
         IN  /\ instrumented[k].type = "JsError"
             /\ d.message = (IF e.error = "object" THEN e.errorMessage ELSE e.message)
             /\ d.source = e.filename
             /\ d.lineno = e.lineno
             /\ d.colno = e.colno

\* The same error event was logged twice and gave two events; it carries an
\* error object whose message differs from the event's own.
C22_Witness ==
    /\ Len(errorEvents) = 2
    /\ errorEvents[1] = errorEvents[2]
    /\ errorEvents[1].error = "object"
    /\ errorEvents[1].message = "boom"
    /\ Len(instrumented) = 2
    /\ instrumented[1].data.message = "inner"

ReportedIds(log) ==
    UNION { { log[k].data.entries[j].id : j \in 1 .. Len(log[k].data.entries) } :
              k \in 1 .. Len(log) }

\* The entries a poll has to report: complete and not reported so far.
DueIds ==
    { resourceTimings[i].id : i \in { j \in 1 .. Len(resourceTimings) :
                                        resourceTimings[j].responseEnd > 0 } }
        \ ReportedIds(instrumented)

C23_State ==
    \A k \in 1 .. Len(instrumented) :
      LET entries == instrumented[k].data.entries
      IN  /\ instrumented[k].type = "ResourceTiming"
          /\ entries # << >>
          /\ \A j \in 1 .. Len(entries) :
               /\ entries[j].responseEnd > 0
               /\ \A k2 \in 1 .. Len(instrumented) :
                    \A j2 \in 1 .. Len(instrumented[k2].data.entries) :
                      instrumented[k2].data.entries[j2].id = entries[j].id
                          => (k2 = k /\ j2 = j)

C23_Step ==
    polls' # polls =>
        IF DueIds = {}
        THEN instrumented' = instrumented
        ELSE /\ Len(instrumented') = Len(instrumented) + 1
             /\ SubSeq(instrumented', 1, Len(instrumented)) = instrumented
             /\ ReportedIds(instrumented') = ReportedIds(instrumented) \cup DueIds
             /\ Len(instrumented'[Len(instrumented')].data.entries)
                    = Cardinality(DueIds)

\* C23: every poll sends the entries that are complete and not yet reported
\* in one ResourceTiming event (none when there is no such entry), so an
\* incomplete entry is withheld until the first poll after it completes; no
\* entry is reported twice and every reported entry is complete.
C23_EveryEntryReportedOnceWhenComplete == [] C23_State /\ [][C23_Step]_vars

\* The second entry was incomplete at the poll that reported the first and
\* the third, and a later poll reported it alone.
C23_Witness ==
    /\ Len(instrumented) = 2
    /\ ReportedIds(<< instrumented[1] >>) = { 1, 3 }
    /\ ReportedIds(<< instrumented[2] >>) = { 2 }

\* A step in which the timer runs one slice of backfillLayoutsAsync, in
\* whatever phase the plugin is: a timer is pending, no record waits, and
\* the step is not one of the page, of the user or of the host.
SliceRan ==
    /\ backfillTimer # << >>
    /\ pendingRecords.count = 0
    /\ UNCHANGED << phase, opsDone, interactions, activations, pendingRecords,
                    batcherVars, pluginVars >>

\* C24: backfill terminates after finitely many slices: every slice that
\* starts with a non-empty placeholder queue upgrades at least one node, and
\* once discovery is complete no placeholder is left and no slice is pending.
C24_EverySliceUpgradesANode ==
    /\ [] (domDiscoverComplete => (originalLayouts = << >> /\ backfillTimer = << >>))
    /\ [][ (SliceRan /\ originalLayouts # << >>)
              => Len(originalLayouts') < Len(originalLayouts) ]_vars

\* The ids of the events in the batches emitted so far.
PostedIds(batches) == UNION { BatchIds(batches[i]) : i \in 1 .. Len(batches) }

\* A step in which the worker handles a ForceCompression message.
ForceCompressionHandled ==
    /\ received' = received
    /\ Len(flushCalls') = 1

C25_State ==
    \A i \in 1 .. Len(flushCalls) :
        \/ flushCalls[i].eventsAfter = << >> /\ flushCalls[i].bytesAfter = 0
        \/ IsSingleXhrError(flushCalls[i].eventsAfter)

C25_Step ==
    ForceCompressionHandled =>
        /\ \/ nextBatchEvents' = << >> /\ nextBatchBytes' = 0
           \/ IsSingleXhrError(nextBatchEvents')
        /\ \A k \in 1 .. Len(received) :
             received[k].stateType # XhrError => received[k].id \in PostedIds(posted')

\* C25: a flush, and so the handling of a ForceCompression message, leaves
\* the pending batch empty (no events, 0 bytes) unless it is exactly one
\* XhrError event; every other event received before a ForceCompression is
\* in a batch emitted by the time the message is handled.
C25_ForceCompressionEmptiesPending == [] C25_State /\ [][C25_Step]_vars

\* ForceCompression found two events pending below the limit, an XhrError
\* event among them, and emitted them: nothing is pending.
C25_Witness ==
    /\ Len(flushCalls) = 1
    /\ flushCalls[1].emitted
    /\ flushCalls[1].bytes < BatchLimit
    /\ Len(flushCalls[1].events) = 2
    /\ flushCalls[1].events[1].stateType = XhrError
    /\ nextBatchEvents = << >>
    /\ nextBatchBytes = 0

\* C26: between messages the pending batch is below the limit: nextBatchBytes
\* is the sum of the serialized lengths of nextBatchEvents and is less than
\* batchLimit, unless the pending batch is exactly one XhrError event; an
\* event whose own length reaches batchLimit is pending only as that lone
\* XhrError event.
C26_PendingBelowLimit ==
    /\ nextBatchBytes = SumLengths(nextBatchEvents)
    /\ nextBatchBytes < BatchLimit \/ IsSingleXhrError(nextBatchEvents)
    /\ \A k \in 1 .. Len(nextBatchEvents) :
         eventStrLength(nextBatchEvents[k]) >= BatchLimit
            => IsSingleXhrError(nextBatchEvents)

\* An event longer than the limit was emitted alone by the AddEvent that
\* brought it, and a lone XhrError event as long as the limit is pending.
C26_Witness ==
    /\ \E i \in 1 .. Len(posted) :
         /\ Len(posted[i].events) = 1
         /\ eventStrLength(posted[i].events[1]) > BatchLimit
    /\ IsSingleXhrError(nextBatchEvents)
    /\ nextBatchBytes = BatchLimit

\* C27 (as claimed): while the tracker is degraded (until reset) no layout
\* event with source = Mutation is emitted, the batches waiting in the
\* pre-discovery queue included.  (No behaviour emits a Mutation event,
\* createEventState throwing on every call, so the gate of mutation() and the
\* flush of onDomDiscoverComplete, which has no gate, are never put to the
\* test.)
C27_NoMutationEventWhileDegraded ==
    [][ Degraded => MutationEvents' = MutationEvents ]_vars

IsMove(state) == state.type \in { "mousemove", "touchmove" }

\* The positions in log of the moves emitted since the last reset.
EmittedMoves(log) ==
    { i \in (pointerResetAt + 1) .. Len(log) : IsMove(log[i].data.state) }

LastEmittedMove(log) ==
    log[CHOOSE i \in EmittedMoves(log) : \A j \in EmittedMoves(log) : j <= i]

\* The pointer states processed in this step, each with its time stamp.
NewPointerStates ==
    SubSeq(pointerStates', Len(pointerStates) + 1, Len(pointerStates'))

\* What the throttle should let through, given the events emitted so far.
MoveIsDue(log, input) ==
    \/ EmittedMoves(log) = {}
    \/ LET dx == LastEmittedMove(log).data.state.x - input.state.x
           dy == LastEmittedMove(log).data.state.y - input.state.y
       IN  dx * dx + dy * dy > 20 * 20
    \/ input.time - LastEmittedMove(log).time > 500

\* The events that should have been emitted once the inputs are processed.
RECURSIVE Throttled(_, _)
Throttled(log, inputs) ==
    IF inputs = << >> THEN log
    ELSE LET input == Head(inputs)
         IN  Throttled(IF IsMove(input.state) => MoveIsDue(log, input)
                       THEN Append(log, [ type |-> "Pointer",
                                          data |-> [ state |-> input.state ],
                                          time |-> input.time ])
                       ELSE log,
                       Tail(inputs))

C28_Step ==
    Len(pointerStates') > Len(pointerStates) =>
        /\ pointerEvents' = Throttled(pointerEvents, NewPointerStates)
        /\ (\A k \in 1 .. Len(NewPointerStates) : ~ IsMove(NewPointerStates[k].state))
              => /\ lastMoveState' = lastMoveState
                 /\ lastMoveTime' = lastMoveTime

\* C28: a mousemove or touchmove state is emitted iff it is the first move
\* since reset, or it is more than 20 away from the last emitted move, or more
\* than 500 ms have passed since the last emitted move; any other pointer
\* state is emitted and leaves lastMoveState and lastMoveTime as they are.
\* The states of one event are judged one after the other, each against the
\* moves emitted before it, those of the same event included.
C28_MoveThrottling == [][C28_Step]_vars

\* Three moves: the first emitted, the second exactly 20 away 250 ms later
\* and suppressed, the third at the same place and emitted because 751 ms
\* have passed since the first.
C28_Witness ==
    /\ Len(pointerStates) = 3
    /\ \A k \in 1 .. 3 : IsMove(pointerStates[k].state)
    /\ pointerResetAt = 0
    /\ pointerStates[1].state.x = 0
    /\ pointerStates[2].state.x = 12
    /\ pointerStates[2].time = pointerStates[1].time + 250
    /\ pointerStates[3].state.x = 12
    /\ pointerStates[3].time = pointerStates[2].time + 501
    /\ Len(pointerEvents) = 2
    /\ pointerEvents[2].data.state = pointerStates[3].state

=============================================================================
